---- MODULE Spec2Model ----
(***************************************************************************)
(* ZACWire frame decoder (ZacWireInputChannel) and TSIC measurement        *)
(* channel (TsicInputChannel) of src/tsic.py.                              *)
(*                                                                         *)
(* The program state is the record s: the private fields of the two        *)
(* objects, the state of the pigpio connection that the code drives        *)
(* (watchdog, subscription), the condition variable, and observation logs  *)
(* of the calls the code makes to its callbacks.  Handlers are operators   *)
(* from a state to the next state, so that a handler which calls another   *)
(* one is their composition and a whole handler is one step.               *)
(*                                                                         *)
(* Python None is the empty tuple and a present value v is <<v>>.          *)
(* Temperatures are exact fractions [num, den] (the code uses floats).     *)
(***************************************************************************)
EXTENDS Integers, Sequences, FiniteSets, TLC

VARIABLES s, tx, thr, drv

vars == <<s, tx, thr, drv>>

---------------------------------------------------------------------------
(* Python values *)

NoneV == <<>>

Some(v) == <<v>>

IsNone(o) == o = <<>>

Val(o) == o[1]

---------------------------------------------------------------------------
(* pigpio constants and the 32 bit tick counter.  A tick is kept as two    *)
(* 16 bit halves [hi, lo], as 2^32 is beyond the model checker's integers. *)

LOW == 0

HIGH == 1

TIMEOUT == 2

Half == 65536

Tick(hi, lo) == [hi |-> hi, lo |-> lo]

\* t + d for 0 <= d < 2^31, wrapping at 2^32
TickAdd(t, d) ==
    LET l == t.lo + (d % Half)
    IN  Tick((t.hi + (d \div Half) + (l \div Half)) % Half, l % Half)

\* t2 - t1 as it is, negative when the counter has wrapped between the two
tickDiff_plain(t1, t2) ==
    LET borrow == IF t2.lo < t1.lo THEN 1 ELSE 0
    IN  Tick(t2.hi - t1.hi - borrow, (t2.lo - t1.lo + Half) % Half)

\* pigpio.tickDiff(t1, t2): t2 - t1, plus 2^32 when negative
tickDiff(t1, t2) ==
    LET borrow == IF t2.lo < t1.lo THEN 1 ELSE 0
    IN  Tick((t2.hi - t1.hi - borrow + Half) % Half, (t2.lo - t1.lo + Half) % Half)

\* a tick difference compared with a small constant: d > n
TicksGT(d, n) == d.hi > 0 \/ (d.hi = 0 /\ d.lo > n)

\* two tick differences compared: a > b
TicksGreater(a, b) == a.hi > b.hi \/ (a.hi = b.hi /\ a.lo > b.lo)

---------------------------------------------------------------------------
(* Measurement, TsicType and the value decoder *)

Measurement(degree_celsius, seconds_since_epoch) ==
    [degree_celsius |-> degree_celsius, seconds_since_epoch |-> seconds_since_epoch]

UNDEF == Measurement(NoneV, NoneV)

\* _tsic_11bit called with ht and lt exchanged
tsic_11bit_swapped(packet_bytes, ht, lt) ==
    [num |-> (packet_bytes[1] * 256 + packet_bytes[2]) * (lt - ht) + ht * 2047,
     den |-> 2047]

\* _tsic_11bit dividing by 2048
tsic_11bit_2048(packet_bytes, ht, lt) ==
    [num |-> (packet_bytes[1] * 256 + packet_bytes[2]) * (ht - lt) + lt * 2048,
     den |-> 2048]

\* _tsic_11bit taking the second byte as the high byte
tsic_11bit_lowfirst(packet_bytes, ht, lt) ==
    [num |-> (packet_bytes[2] * 256 + packet_bytes[1]) * (ht - lt) + lt * 2047,
     den |-> 2047]

\* raw / 2047. * (ht - lt) + lt, as the fraction num / den
tsic_11bit(packet_bytes, ht, lt) ==
    [num |-> (packet_bytes[1] * 256 + packet_bytes[2]) * (ht - lt) + lt * 2047,
     den |-> 2047]

\* raw / 16383. * (ht - lt) + lt, as the fraction num / den
tsic_14bit(packet_bytes, ht, lt) ==
    [num |-> (packet_bytes[1] * 256 + packet_bytes[2]) * (ht - lt) + lt * 16383,
     den |-> 16383]

\* the module's TsicType objects: a name and a partial application of one
\* of the two functions
TSIC206 == [name |-> "TSic 206/306", func |-> "_tsic_11bit", ht |-> 150, lt |-> -50]

TSIC306 == TSIC206

TSIC506 == [name |-> "TSic 506", func |-> "_tsic_11bit", ht |-> 60, lt |-> -10]

TSIC716 == [name |-> "TSic 716", func |-> "_tsic_14bit", ht |-> 60, lt |-> -10]

TsicTypes == {"TSIC206", "TSIC306", "TSIC506", "TSIC716"}

\* the object a module-level name is bound to
TsicType(tsic_type) ==
    CASE tsic_type = "TSIC206" -> TSIC206
      [] tsic_type = "TSIC306" -> TSIC306
      [] tsic_type = "TSIC506" -> TSIC506
      [] tsic_type = "TSIC716" -> TSIC716

bytes_to_degree_celcius(tsic_type, packet_bytes) ==
    LET t == TsicType(tsic_type)
    IN  IF t.func = "_tsic_11bit"
        THEN tsic_11bit(packet_bytes, t.ht, t.lt)
        ELSE tsic_14bit(packet_bytes, t.ht, t.lt)

---------------------------------------------------------------------------
(* TsicInputChannel: the packet handler.  The user callback is "none",     *)
(* "good" (returns) or "raising" (raises on every invocation).             *)

Callbacks == {"none", "good", "raising"}

\* the measurement property: both cached fields, read under the lock
measurement(st) == Measurement(st.degree_celsius, st.timestamp)

\* PR_update that takes a new time only for a new temperature
PR_update_ifchanged(st, packet_bytes) ==
    LET d == Some(bytes_to_degree_celcius(st.tsic_type, packet_bytes))
    IN  [st EXCEPT !.degree_celsius = d,
                   !.timestamp = IF d = st.degree_celsius THEN @ ELSE Some(st.clock),
                   !.clock = @ + 1,
                   !.measurements = @ + 1]

\* the locked block of __packet_received; time.time() is st.clock, and two
\* packets never read the same time
PR_update(st, packet_bytes) ==
    [st EXCEPT !.degree_celsius = Some(bytes_to_degree_celcius(st.tsic_type, packet_bytes)),
               !.timestamp = Some(st.clock),
               !.clock = @ + 1,
               !.measurements = @ + 1]

\* if self.__callback is not None: self.__callback(measurement)
PR_callback(st, m) ==
    IF st.callback = "none"
    THEN st
    ELSE [st EXCEPT !.cb_calls = Append(@, m), !.cb_who = Append(@, st.callback),
                    !.exc = (st.callback = "raising")]

\* with self.__measure_waiting: notifyAll()
PR_notify(st) == [st EXCEPT !.waiters = {}, !.notifications = @ + 1]

---------------------------------------------------------------------------
(* ZacWireInputChannel *)

STATUS_OK == 0

STATUS_PARITY_ERROR == 1

STATUS_BIT_COUNT_ERROR == 2

PACKET_START_TICKS == 1000

BYTE_START_TICKS == 150

BITS_PER_BYTE == 9

DATA_BITS == 8

WATCHDOG_MS == 1

\* run F on the state unless an exception is propagating
Then(st, F(_)) == IF st.exc THEN st ELSE F(st)

\* packet_received that takes any packet of at least two bytes
packet_received_anylen(st, status, packet_bytes) ==
    IF status = STATUS_OK /\ Len(packet_bytes) >= 2
    THEN LET s1 == PR_update(st, packet_bytes)
         IN  Then(PR_callback(s1, measurement(s1)), PR_notify)
    ELSE st

packet_received(st, status, packet_bytes) ==
    IF status = STATUS_OK /\ Len(packet_bytes) = 2
    THEN LET s1 == PR_update(st, packet_bytes)
         IN  Then(PR_callback(s1, measurement(s1)), PR_notify)
    ELSE st

\* call_packet_callback without the try / except
call_packet_callback_notry(st, status, packet_bytes) ==
    packet_received(
        [st EXCEPT !.delivered = Append(@, [status |-> status, bytes |-> packet_bytes])],
        status, packet_bytes)

\* the packet callback is always the lambda that TsicInputChannel.start
\* passes; delivered logs its invocations
call_packet_callback(st, status, packet_bytes) ==
    LET r == packet_received(
                 [st EXCEPT !.delivered = Append(@, [status |-> status, bytes |-> packet_bytes])],
                 status, packet_bytes)
    IN  IF r.exc THEN [r EXCEPT !.exc = FALSE, !.logged = @ + 1] ELSE r

\* a reset that leaves the decoder state as it is
reset_packet_keep(st) == st

\* a reset of the bytes and the calibration width only
reset_packet_bytesonly(st) ==
    [st EXCEPT !.bit_ticks = NoneV, !.received_bytes = NoneV]

reset_packet(st) ==
    [st EXCEPT !.bit_ticks = NoneV, !.parity = 0, !.bit_count = 0, !.received_bytes = NoneV]

pass_any_packet_to_callback(st, status) ==
    IF ~IsNone(st.received_bytes)
    THEN Then(call_packet_callback(st, status, Val(st.received_bytes)),
              LAMBDA r : [r EXCEPT !.received_bytes = NoneV])
    ELSE st

\* check_parity with the test for odd parity the wrong way round
check_parity_odd(st) ==
    IF st.parity % 2 = 0
    THEN Then(pass_any_packet_to_callback(st, STATUS_PARITY_ERROR), reset_packet)
    ELSE st

check_parity(st) ==
    IF st.parity % 2 # 0
    THEN Then(pass_any_packet_to_callback(st, STATUS_PARITY_ERROR), reset_packet)
    ELSE st

\* a call of the pigpio connection, as pi_log notes it down
PiCall(call, arg) == [call |-> call, arg |-> arg]

set_watchdog(st, ms) ==
    [st EXCEPT !.watchdog = ms, !.pi_log = Append(@, PiCall("set_watchdog", ms))]

\* gpio_low that begins the next byte whatever the bit count
gpio_low_nocount(st, tick) ==
    LET high_ticks == tickDiff(Val(st.last_high_tick), tick)
        bytes == Val(st.received_bytes)
        s1 == IF IsNone(st.last_high_tick) THEN st
              ELSE IF TicksGT(high_ticks, PACKET_START_TICKS)
              THEN Then(pass_any_packet_to_callback(st, STATUS_OK),
                        LAMBDA r : [r EXCEPT !.received_bytes = Some(<<0>>),
                                             !.parity = 0,
                                             !.bit_count = 0,
                                             !.bit_ticks = NoneV])
              ELSE IF ~IsNone(st.received_bytes) /\ TicksGT(high_ticks, BYTE_START_TICKS)
              THEN [st EXCEPT !.received_bytes = Some(Append(bytes, 0)),
                              !.bit_ticks = NoneV,
                              !.bit_count = 0,
                              !.parity = 0]
              ELSE st
    IN  Then(s1, LAMBDA r : [r EXCEPT !.last_low_tick = Some(tick)])

\* gpio_low that takes a high period of 1000 ticks for a packet start too
gpio_low_from1000(st, tick) ==
    LET high_ticks == tickDiff(Val(st.last_high_tick), tick)
        bytes == Val(st.received_bytes)
        s1 == IF IsNone(st.last_high_tick) THEN st
              ELSE IF TicksGT(high_ticks, PACKET_START_TICKS - 1)
              THEN Then(pass_any_packet_to_callback(st, STATUS_OK),
                        LAMBDA r : [r EXCEPT !.received_bytes = Some(<<0>>),
                                             !.parity = 0,
                                             !.bit_count = 0,
                                             !.bit_ticks = NoneV])
              ELSE IF ~IsNone(st.received_bytes) /\ TicksGT(high_ticks, BYTE_START_TICKS)
              THEN IF st.bit_count = BITS_PER_BYTE
                   THEN [st EXCEPT !.received_bytes = Some(Append(bytes, 0)),
                                   !.bit_ticks = NoneV,
                                   !.bit_count = 0,
                                   !.parity = 0]
                   ELSE Then(pass_any_packet_to_callback(st, STATUS_BIT_COUNT_ERROR),
                             reset_packet)
              ELSE st
    IN  Then(s1, LAMBDA r : [r EXCEPT !.last_low_tick = Some(tick)])

\* level == pigpio.LOW
gpio_low(st, tick) ==
    LET high_ticks == tickDiff(Val(st.last_high_tick), tick)
        bytes == Val(st.received_bytes)
        s1 == IF IsNone(st.last_high_tick) THEN st
              ELSE IF TicksGT(high_ticks, PACKET_START_TICKS)
              THEN Then(pass_any_packet_to_callback(st, STATUS_OK),
                        LAMBDA r : [r EXCEPT !.received_bytes = Some(<<0>>),
                                             !.parity = 0,
                                             !.bit_count = 0,
                                             !.bit_ticks = NoneV])
              ELSE IF ~IsNone(st.received_bytes) /\ TicksGT(high_ticks, BYTE_START_TICKS)
              THEN IF st.bit_count = BITS_PER_BYTE
                   THEN [st EXCEPT !.received_bytes = Some(Append(bytes, 0)),
                                   !.bit_ticks = NoneV,
                                   !.bit_count = 0,
                                   !.parity = 0]
                   ELSE Then(pass_any_packet_to_callback(st, STATUS_BIT_COUNT_ERROR),
                             reset_packet)
              ELSE st
    IN  Then(s1, LAMBDA r : [r EXCEPT !.last_low_tick = Some(tick)])

\* gpio_bit with the parity bit shifted into the byte as well
gpio_bit_shift9(st, bit) ==
    LET bytes == Val(st.received_bytes)
        n == Len(bytes)
        s1 == [st EXCEPT !.received_bytes = Some([bytes EXCEPT ![n] = bytes[n] * 2 + bit]),
                         !.bit_count = @ + 1,
                         !.parity = @ + bit]
    IN  IF s1.bit_count = BITS_PER_BYTE
        THEN Then(check_parity(s1), LAMBDA r : set_watchdog(r, WATCHDOG_MS))
        ELSE IF s1.bit_count > BITS_PER_BYTE
        THEN Then(pass_any_packet_to_callback(s1, STATUS_BIT_COUNT_ERROR), reset_packet)
        ELSE s1

\* gpio_bit without the branch for more than nine bits
gpio_bit_nolimit(st, bit) ==
    LET bytes == Val(st.received_bytes)
        n == Len(bytes)
        s1 == [st EXCEPT !.received_bytes =
                             IF st.bit_count < DATA_BITS
                             THEN Some([bytes EXCEPT ![n] = bytes[n] * 2 + bit])
                             ELSE @,
                         !.bit_count = @ + 1,
                         !.parity = @ + bit]
    IN  IF s1.bit_count = BITS_PER_BYTE
        THEN Then(check_parity(s1), LAMBDA r : set_watchdog(r, WATCHDOG_MS))
        ELSE s1

\* a classified bit: shift in, count, parity, then the checks on the count
gpio_bit(st, bit) ==
    LET bytes == Val(st.received_bytes)
        n == Len(bytes)
        s1 == [st EXCEPT !.received_bytes =
                             IF st.bit_count < DATA_BITS
                             THEN Some([bytes EXCEPT ![n] = bytes[n] * 2 + bit])
                             ELSE @,
                         !.bit_count = @ + 1,
                         !.parity = @ + bit]
    IN  IF s1.bit_count = BITS_PER_BYTE
        THEN Then(check_parity(s1), LAMBDA r : set_watchdog(r, WATCHDOG_MS))
        ELSE IF s1.bit_count > BITS_PER_BYTE
        THEN Then(pass_any_packet_to_callback(s1, STATUS_BIT_COUNT_ERROR), reset_packet)
        ELSE s1

\* level == pigpio.HIGH
gpio_high(st, tick) ==
    LET low_ticks == tickDiff(Val(st.last_low_tick), tick)
        s1 == IF IsNone(st.last_low_tick) \/ IsNone(st.received_bytes) THEN st
              ELSE IF IsNone(st.bit_ticks)
              THEN [st EXCEPT !.bit_ticks = Some(low_ticks)]
              ELSE gpio_bit(st, IF TicksGreater(low_ticks, Val(st.bit_ticks)) THEN 0 ELSE 1)
    IN  Then(s1, LAMBDA r : [r EXCEPT !.last_high_tick = Some(tick)])

\* a TIMEOUT branch that flushes and keeps the decoder state
gpio_timeout_noreset(st) == pass_any_packet_to_callback(st, STATUS_OK)

\* level == pigpio.TIMEOUT
gpio_timeout(st) == Then(pass_any_packet_to_callback(st, STATUS_OK), reset_packet)

gpio_callback(st, level, tick) ==
    CASE level = LOW -> gpio_low(st, tick)
      [] level = HIGH -> gpio_high(st, tick)
      [] level = TIMEOUT -> gpio_timeout(st)
      [] OTHER -> st

\* a cancel that leaves the subscription in place
pi_cancel_noop(st) == st

\* self.__pi_callback.cancel(): the subscription is removed from the
\* connection, which counts its subscriptions in subs
pi_cancel(st) ==
    [st EXCEPT !.subs = @ - 1, !.pi_log = Append(@, PiCall("cancel", 0))]

\* self.pi.callback(gpio, EITHER_EDGE, ...): one more subscription
pi_subscribe(st) ==
    [st EXCEPT !.subs = @ + 1, !.pi_log = Append(@, PiCall("callback", 0))]

\* stop that cancels the subscription and leaves the watchdog as it is
zacwire_stop_keepwatchdog(st) ==
    LET s1 == IF st.pi_callback
              THEN [pi_cancel(st) EXCEPT !.pi_callback = FALSE]
              ELSE st
    IN  [reset_packet(s1) EXCEPT !.last_low_tick = NoneV, !.last_high_tick = NoneV]

\* stop that leaves the ticks of the last edges as they are
zacwire_stop_keepticks(st) ==
    LET s1 == IF st.pi_callback
              THEN [pi_cancel(set_watchdog(st, 0)) EXCEPT !.pi_callback = FALSE]
              ELSE st
    IN  reset_packet(s1)

zacwire_stop(st) ==
    LET s1 == IF st.pi_callback
              THEN [pi_cancel(set_watchdog(st, 0)) EXCEPT !.pi_callback = FALSE]
              ELSE st
    IN  [reset_packet(s1) EXCEPT !.last_low_tick = NoneV, !.last_high_tick = NoneV]

zacwire_start(st) ==
    LET s1 == zacwire_stop(st)
    IN  IF s1.connected THEN [pi_subscribe(s1) EXCEPT !.pi_callback = TRUE] ELSE s1

zacwire_is_started(st) == st.pi_callback

---------------------------------------------------------------------------
(* TsicInputChannel: start, stop, is_started *)

tsic_stop(st) == zacwire_stop(st)

tsic_start(st, callback) == zacwire_start([tsic_stop(st) EXCEPT !.callback = callback])

is_started(st) == zacwire_is_started(st)

\* the state after TsicInputChannel(pi, gpio, tsic_type) on a connected pi;
\* the decoder fields that __init__ leaves unset are given their reset values
Constructed(tsic_type) ==
    [connected |-> TRUE, exists |-> TRUE, error |-> "",
     pi_callback |-> FALSE, watchdog |-> 0, subs |-> 0,
     pi_log |-> <<PiCall("set_mode", 0), PiCall("set_pull_up_down", 0)>>,
     lock |-> NoneV, unguarded |-> {}, cb_who |-> <<>>,
     bit_ticks |-> NoneV, parity |-> 0, bit_count |-> 0, received_bytes |-> NoneV,
     last_low_tick |-> NoneV, last_high_tick |-> NoneV,
     tsic_type |-> tsic_type, callback |-> "none",
     degree_celsius |-> NoneV, timestamp |-> NoneV,
     waiters |-> {}, clock |-> 0, exc |-> FALSE,
     delivered |-> <<>>, cb_calls |-> <<>>, notifications |-> 0, logged |-> 0,
     measurements |-> 0]

\* the constructor without the test of pi.connected
New_nocheck(connected, tsic_type) == [Constructed(tsic_type) EXCEPT !.connected = connected]

\* TsicInputChannel(pi, gpio, tsic_type): on a pi that is not connected
\* ZacWireInputChannel.__init__ raises before any call of the pi, the
\* exception leaves both constructors and the caller gets no object
New(connected, tsic_type) ==
    IF connected
    THEN Constructed(tsic_type)
    ELSE [Constructed(tsic_type) EXCEPT !.connected = FALSE, !.exists = FALSE,
                                        !.error = "PigpioNotConnectedError",
                                        !.pi_log = <<>>]

---------------------------------------------------------------------------
(* The sensor on the GPIO line: it sends packets of bytes as edges, each   *)
(* byte a calibration low pulse and then bit pulses in a bit window of     *)
(* fixed length (low pulse, then high for the rest of the window).  pigpio *)
(* hands each edge to the subscribed handler on its one callback thread,   *)
(* and a TIMEOUT while the watchdog is armed and the line is silent.       *)

MaxPackets == 2

MaxBytes == 3

\* bytes the sensor sends when it does not send every byte
TxBytes == {0, 167, 255}

AllBytes == 0..255

\* timing of the sensor: bit window, calibration pulse, short (1) and long
\* (0) pulse, gap between bytes, high time before the first packet, time
\* from one packet start to the next, and the tick of the first edge
Profiles ==
    << [window |-> 125, cal |-> 62, short |-> 31, long |-> 93,
        gap |-> 151, idle |-> 1001, period |-> 100000, start |-> Tick(0, 0)],
       [window |-> 200, cal |-> 51, short |-> 50, long |-> 52,
        gap |-> 1000, idle |-> 2000, period |-> 100000, start |-> Tick(65535, 65000)] >>

NoFault == [kind |-> "none", byte |-> 0, bit |-> 0]

\* what the sensor may do wrong in a packet: "flip" sends bit number bit of
\* a byte with the pulse of the opposite value, "gap" stays high for a byte
\* gap after only bit bits of a byte, "extra" sends a tenth pulse in a byte
Faults(nbytes) ==
    {NoFault} \cup
    (IF nbytes = 2
     THEN [kind : {"flip"}, byte : 0..1, bit : 1..BITS_PER_BYTE]
          \cup [kind : {"gap"}, byte : 0..1, bit : 0..(BITS_PER_BYTE - 1)]
          \cup [kind : {"extra"}, byte : 0..1, bit : {BITS_PER_BYTE}]
     ELSE {})

Pow2(n) == IF n = 0 THEN 1 ELSE IF n = 1 THEN 2 ELSE IF n = 2 THEN 4 ELSE IF n = 3 THEN 8
           ELSE IF n = 4 THEN 16 ELSE IF n = 5 THEN 32 ELSE IF n = 6 THEN 64
           ELSE IF n = 7 THEN 128 ELSE 256

\* the sensor can go on with data bit b after nbits bits of value cur:
\* some byte it sends begins so (any bits begin a byte of AllBytes)
CanSend(all, cur, nbits, b) ==
    \/ all /\ cur * 2 + b \in AllBytes
    \/ \E byte \in TxBytes : byte \div Pow2(DATA_BITS - (nbits + 1)) = cur * 2 + b

Prof == Profiles[tx.prof]

\* bits the sensor sends in the current byte
TargetBits ==
    IF tx.fault.kind = "extra" /\ tx.fault.byte = tx.byteIx
    THEN BITS_PER_BYTE + 1
    ELSE BITS_PER_BYTE

\* pigpio delivers an event to the handler while it is subscribed and its
\* callback thread is alive
Event(st, level, tick) ==
    IF st.pi_callback /\ ~st.exc THEN gpio_callback(st, level, tick) ELSE st

\* the logs of callback invocations start again with each packet
Observe(st) ==
    [st EXCEPT !.delivered = <<>>, !.cb_calls = <<>>, !.notifications = 0,
               !.measurements = 0, !.cb_who = <<>>, !.pi_log = <<>>]

Send(level, d, next) ==
    LET t == TickAdd(tx.now, d)
    IN  /\ s' = Event(s, level, t)
        /\ tx' = [next EXCEPT !.now = t, !.ev = Some([level |-> level, tick |-> t])]

TxInit(all, prof) ==
    [stage |-> "new", all |-> all, prof |-> prof, now |-> Profiles[prof].start,
     t0 |-> Profiles[prof].start, ev |-> NoneV, pkt |-> 0, nbytes |-> 0, fault |-> NoFault,
     byteIx |-> 0, nbits |-> 0, cur |-> 0, ones |-> 0, high |-> 0, sent |-> <<>>,
     prev |-> {}]

\* the application thread: where it is in measure_once, the locals of
\* measure_once, and what an observer of the call notes down (registered:
\* the callbacks that the application has passed to start)
ThrInit ==
    [pc |-> "idle", calls |-> 0,
     timeout |-> NoneV, last_timestamp |-> NoneV, was_started |-> FALSE,
     deadline |-> 0, measurement |-> UNDEF, result |-> UNDEF,
     entry_clock |-> 0, meas_at_wait |-> 0, ts_at_wake |-> NoneV,
     drv_idle_at_entry |-> TRUE, timed_out |-> FALSE, meas_at_read |-> 0,
     last_call |-> "", registered |-> {}]

\* the pigpio callback thread: where it is in __packet_received, and the
\* local measurement
DrvInit == [pc |-> "idle", m |-> UNDEF, n |-> 0]

\* start(callback) by the application
Start(cb) ==
    /\ tx.stage = "new"
    /\ s' = tsic_start(s, cb)
    /\ tx' = [tx EXCEPT !.stage = "pre"]
    /\ UNCHANGED <<thr, drv>>

\* the first edge after start: the line goes high
SendFirstHigh ==
    /\ tx.stage = "pre"
    /\ Send(HIGH, 0, [tx EXCEPT !.stage = "idle"])
    /\ UNCHANGED <<thr, drv>>

\* falling edge after the line was idle: the start of a packet of nbytes.
\* The first packet is any packet; the packets after it have two bytes and
\* no fault and begin one period after the packet before.  prev notes down
\* the statuses of the frames delivered since the packet before began.
SendPacketStart(nbytes, fault) ==
    /\ tx.stage = "idle" \/ (tx.stage = "done" /\ tx.pkt < MaxPackets)
    /\ fault \in Faults(nbytes)
    /\ (fault = NoFault /\ nbytes = 2) \/ tx.pkt = 0
    /\ LET t == IF tx.pkt = 0 THEN TickAdd(tx.now, Prof.idle)
                ELSE TickAdd(tx.t0, Prof.period)
       IN  /\ s' = Event(Observe(s), LOW, t)
           /\ tx' = [tx EXCEPT !.stage = "cal", !.pkt = @ + 1, !.nbytes = nbytes,
                               !.fault = fault, !.byteIx = 0, !.nbits = 0, !.cur = 0,
                               !.ones = 0, !.sent = <<>>, !.now = t, !.t0 = t,
                               !.ev = Some([level |-> LOW, tick |-> t]),
                               !.prev = {s.delivered[i].status : i \in 1..Len(s.delivered)}]
    /\ UNCHANGED <<thr, drv>>

\* rising edge that ends the calibration pulse of a byte
SendCalEnd ==
    /\ tx.stage = "cal"
    /\ Send(HIGH, Prof.cal, [tx EXCEPT !.stage = "high", !.high = Prof.window - Prof.cal])
    /\ UNCHANGED <<thr, drv>>

\* falling edge that begins a bit pulse
SendFall ==
    /\ tx.stage = "high"
    /\ tx.nbits < TargetBits
    /\ LET early == tx.fault.kind = "gap" /\ tx.fault.byte = tx.byteIx
                    /\ tx.fault.bit = tx.nbits
       IN  Send(LOW, IF early THEN Prof.gap ELSE tx.high, [tx EXCEPT !.stage = "pulse"])
    /\ UNCHANGED <<thr, drv>>

\* rising edge that ends the pulse of bit b: a data bit, the even parity
\* bit, or anything as a tenth bit
SendRise(b) ==
    /\ tx.stage = "pulse"
    /\ IF tx.nbits < DATA_BITS THEN CanSend(tx.all, tx.cur, tx.nbits, b)
       ELSE IF tx.nbits = DATA_BITS THEN b = tx.ones % 2
       ELSE TRUE
    /\ LET flip == tx.fault.kind = "flip" /\ tx.fault.byte = tx.byteIx
                   /\ tx.fault.bit = tx.nbits + 1
           pulse == IF (b = 1) # flip THEN Prof.short ELSE Prof.long
       IN  Send(HIGH, pulse,
                [tx EXCEPT !.stage = "high", !.nbits = @ + 1,
                           !.cur = IF tx.nbits < DATA_BITS THEN @ * 2 + b ELSE @,
                           !.ones = IF tx.nbits < DATA_BITS THEN @ + b ELSE @,
                           !.high = Prof.window - pulse])
    /\ UNCHANGED <<thr, drv>>

\* falling edge after the gap between two bytes
SendByteGap ==
    /\ tx.stage = "high"
    /\ tx.nbits = TargetBits
    /\ tx.byteIx + 1 < tx.nbytes
    /\ Send(LOW, Prof.gap,
            [tx EXCEPT !.stage = "cal", !.byteIx = @ + 1, !.nbits = 0, !.cur = 0,
                       !.ones = 0, !.sent = Append(@, tx.cur)])
    /\ UNCHANGED <<thr, drv>>

\* the line stays high after the last byte: the watchdog, if armed, fires
SendTimeout ==
    /\ tx.stage = "high"
    /\ tx.nbits = TargetBits
    /\ tx.byteIx + 1 = tx.nbytes
    /\ s.watchdog > 0
    /\ Send(TIMEOUT, 0, [tx EXCEPT !.stage = "done", !.sent = Append(@, tx.cur)])
    /\ UNCHANGED <<thr, drv>>

\* the line stays high after the last byte and no watchdog is armed
EndSilent ==
    /\ tx.stage = "high"
    /\ tx.nbits = TargetBits
    /\ tx.byteIx + 1 = tx.nbytes
    /\ s.watchdog = 0
    /\ tx' = [tx EXCEPT !.stage = "done", !.sent = Append(@, tx.cur)]
    /\ UNCHANGED <<s, thr, drv>>

Init ==
    /\ s = Constructed("TSIC306")
    /\ \E prof \in 1..Len(Profiles) : tx = TxInit(FALSE, prof)
    /\ thr = ThrInit
    /\ drv = DrvInit

Next ==
    \/ \E cb \in Callbacks : Start(cb)
    \/ SendFirstHigh
    \/ \E nbytes \in 1..MaxBytes : \E fault \in Faults(nbytes) : SendPacketStart(nbytes, fault)
    \/ SendCalEnd
    \/ SendFall
    \/ \E b \in 0..1 : SendRise(b)
    \/ SendByteGap
    \/ SendTimeout
    \/ EndSilent

Spec == Init /\ [][Next]_vars

---------------------------------------------------------------------------
(* One well-formed packet of two bytes: every byte pair with the timing at *)
(* the limits, the bytes of TxBytes with the other timing                  *)

InitRT ==
    /\ s = Constructed("TSIC306")
    /\ \E prof \in 1..Len(Profiles) : tx = TxInit(prof = Len(Profiles), prof)
    /\ thr = ThrInit
    /\ drv = DrvInit

NextRT ==
    \/ Start("good")
    \/ SendFirstHigh
    \/ (tx.pkt = 0 /\ SendPacketStart(2, NoFault))
    \/ SendCalEnd
    \/ SendFall
    \/ \E b \in 0..1 : SendRise(b)
    \/ SendByteGap
    \/ SendTimeout

SpecRoundTrip == InitRT /\ [][NextRT]_vars

InPacket == tx.stage \in {"cal", "high", "pulse", "done"}

WellFormed == InPacket /\ tx.fault = NoFault

Frame(status, bytes) == [status |-> status, bytes |-> bytes]

\* C1: a well-formed packet of two bytes b0, b1 delivers nothing to the
\* packet callback before its TIMEOUT event and with it exactly one packet,
\* of status OK and bytes [b0, b1]
C1_RoundTrip ==
    (WellFormed /\ tx.nbytes = 2) =>
        IF tx.stage = "done"
        THEN s.delivered = <<Frame(STATUS_OK, tx.sent)>>
        ELSE s.delivered = <<>>

C1_Witness ==
    /\ WellFormed /\ tx.nbytes = 2 /\ tx.stage = "done"
    /\ tx.prof = 2
    /\ tx.sent = <<167, 254>>
    /\ s.delivered = <<Frame(STATUS_OK, <<167, 254>>)>>

---------------------------------------------------------------------------
(* Packets with a fault, packets of one to MaxBytes bytes, the callbacks *)

\* value v with bit p (0 the lowest) inverted
XorBit(v, p) == IF (v \div Pow2(p)) % 2 = 1 THEN v - Pow2(p) ELSE v + Pow2(p)

IsOk2(f) == f.status = STATUS_OK /\ Len(f.bytes) = 2

\* number of the frames of a log that make a Measurement
CountOk2(frames) == Cardinality({i \in 1..Len(frames) : IsOk2(frames[i])})

Cleared(st) ==
    /\ IsNone(st.received_bytes) /\ st.bit_count = 0 /\ st.parity = 0
    /\ IsNone(st.bit_ticks)

\* the sensor has sent the ninth bit of byte j of the packet
NinthBitSent(j) ==
    \/ tx.stage = "done"
    \/ tx.byteIx > j
    \/ tx.byteIx = j /\ tx.stage = "high" /\ tx.nbits = BITS_PER_BYTE

\* the bytes the decoder holds at the ninth bit of byte j, bit k of which
\* (1 the first, 9 the parity bit) was sent with the opposite pulse
FlippedBytes(j, k) ==
    LET intended == IF tx.stage # "done" /\ tx.byteIx = j
                    THEN Append(tx.sent, tx.cur)
                    ELSE SubSeq(tx.sent, 1, j + 1)
    IN  [intended EXCEPT ![j + 1] = IF k <= DATA_BITS THEN XorBit(@, DATA_BITS - k) ELSE @]

\* C2: in a two byte packet with one bit of a byte sent as the opposite
\* value, the packet callback gets nothing until the ninth bit of that byte,
\* with it one frame of status ParityError and nothing more, never an OK
\* frame, and no Measurement is made (cache still empty, no callback call)
C2_ParityRejection ==
    (InPacket /\ tx.fault.kind = "flip") =>
        /\ s.delivered = IF NinthBitSent(tx.fault.byte)
                         THEN <<Frame(STATUS_PARITY_ERROR,
                                      FlippedBytes(tx.fault.byte, tx.fault.bit))>>
                         ELSE <<>>
        /\ s.measurements = 0 /\ s.cb_calls = <<>> /\ s.notifications = 0
        /\ measurement(s) = UNDEF

C2_Witness ==
    /\ InPacket /\ tx.fault = [kind |-> "flip", byte |-> 1, bit |-> 3]
    /\ tx.stage = "done" /\ s.callback = "good"
    /\ tx.sent = <<255, 167>>
    /\ s.delivered = <<Frame(STATUS_PARITY_ERROR, <<255, 135>>)>>

\* the step is the delivery of a falling edge after a high period of more
\* than 150 and at most 1000 ticks, with a frame in progress
ByteGapStep ==
    /\ tx'.ev # tx.ev
    /\ Val(tx'.ev).level = LOW
    /\ s.pi_callback
    /\ ~IsNone(s.received_bytes)
    /\ LET high_ticks == tickDiff(Val(s.last_high_tick), Val(tx'.ev).tick)
       IN  TicksGT(high_ticks, BYTE_START_TICKS) /\ ~TicksGT(high_ticks, PACKET_START_TICKS)

\* C3: a falling edge after a high period of more than 150 and at most 1000
\* ticks, with a frame in progress whose current byte has not 9 bits,
\* delivers the accumulated bytes with status BitCountError and leaves no
\* frame in progress
C3_BitCountRejection ==
    [][(ByteGapStep /\ s.bit_count # BITS_PER_BYTE) =>
          /\ s'.delivered = Append(s.delivered,
                                   Frame(STATUS_BIT_COUNT_ERROR, Val(s.received_bytes)))
          /\ Cleared(s')]_vars

C3_Witness ==
    /\ tx.fault = [kind |-> "gap", byte |-> 1, bit |-> 3]
    /\ tx.stage = "pulse" /\ tx.byteIx = 1 /\ tx.nbits = 3
    /\ tx.sent = <<167>>
    /\ s.delivered = <<Frame(STATUS_BIT_COUNT_ERROR, <<167, 7>>)>>
    /\ Cleared(s)

\* C4: every packet delivered with status OK and 2 bytes makes one
\* Measurement: the cache holds the decoded temperature and the time, the
\* registered callback is called once with it, and the waiters are notified
C4_EveryOkPacketMeasured ==
    LET n == CountOk2(s.delivered)
    IN  /\ s.measurements = n
        /\ s.callback # "none" => Len(s.cb_calls) = n
        /\ s.notifications = n
        /\ n > 0 =>
             /\ IsOk2(s.delivered[Len(s.delivered)])
             /\ measurement(s) =
                    Measurement(Some(bytes_to_degree_celcius(
                                         s.tsic_type, s.delivered[Len(s.delivered)].bytes)),
                                Some(s.clock - 1))
             /\ s.callback # "none" => s.cb_calls[Len(s.cb_calls)] = measurement(s)

\* the frames the step delivers
NewFrames ==
    LET before == IF tx'.pkt # tx.pkt THEN 0 ELSE Len(s.delivered)
    IN  SubSeq(s'.delivered, before + 1, Len(s'.delivered))

\* C5: a packet delivered with status ParityError or BitCountError, or with
\* status OK and not 2 bytes, leaves the cached measurement as it was, calls
\* no registered callback and notifies no waiter
C5_OtherPacketsIgnored ==
    [][(NewFrames # <<>> /\ \A i \in 1..Len(NewFrames) : ~IsOk2(NewFrames[i])) =>
          /\ measurement(s') = measurement(s)
          /\ s'.clock = s.clock
          /\ Len(s'.cb_calls) = (IF tx'.pkt # tx.pkt THEN 0 ELSE Len(s.cb_calls))
          /\ s'.notifications = (IF tx'.pkt # tx.pkt THEN 0 ELSE s.notifications)
          /\ s'.waiters = s.waiters]_vars

C5_Witness ==
    /\ tx.stage = "done" /\ tx.nbytes = 3 /\ s.callback = "good"
    /\ s.delivered = <<Frame(STATUS_OK, <<167, 0, 255>>)>>
    /\ s.cb_calls = <<>> /\ s.notifications = 0
    /\ measurement(s) = UNDEF

\* C7: an exception of the registered callback never leaves the packet
\* callback: after a well-formed two byte packet on a channel whose callback
\* raises, the decoder holds no frame, as after any delivery, and the packet
\* has been delivered with status OK and its bytes and is in the cache, also
\* when the packet before it failed the same way
C7_CallbackFailureIsolated ==
    /\ ~s.exc
    /\ (tx.stage = "done" /\ s.pi_callback) => Cleared(s)
    /\ (WellFormed /\ tx.nbytes = 2 /\ tx.stage = "done" /\ s.callback = "raising") =>
          /\ s.delivered = <<Frame(STATUS_OK, tx.sent)>>
          /\ s.logged >= 1
          /\ measurement(s) =
                 Measurement(Some(bytes_to_degree_celcius(s.tsic_type, tx.sent)),
                             Some(s.clock - 1))

C7_Witness ==
    /\ WellFormed /\ tx.nbytes = 2 /\ tx.stage = "done" /\ s.callback = "raising"
    /\ tx.pkt = 2 /\ s.logged = 2
    /\ s.timestamp = Some(1)
    /\ s.delivered = <<Frame(STATUS_OK, <<0, 167>>)>>

---------------------------------------------------------------------------
(* measure_once on the application thread against packets arriving on the *)
(* pigpio callback thread.  Each thread takes one statement at a time.     *)
(* Condition.wait(timeout) puts the thread among the waiters and returns   *)
(* once notifyAll has taken it out or timeout seconds have passed.         *)

MaxCalls == 2

MaxDeliveries == 2

MaxClock == 1

MaxTimeout == 1

Me == "main"

\* packets the decoder completes
PacketsMO ==
    {Frame(STATUS_OK, <<4, 0>>), Frame(STATUS_OK, <<7>>), Frame(STATUS_PARITY_ERROR, <<4, 0>>)}

Timeouts == {NoneV} \cup {Some(n) : n \in 1..MaxTimeout}

CallStart(cb) ==
    /\ thr.pc = "idle" /\ thr.calls < MaxCalls
    /\ s' = tsic_start(Observe(s), cb)
    /\ thr' = [thr EXCEPT !.calls = @ + 1, !.last_call = "start",
                          !.registered = @ \cup ({cb} \ {"none"})]
    /\ UNCHANGED <<tx, drv>>

CallStop ==
    /\ thr.pc = "idle" /\ thr.calls < MaxCalls
    /\ s' = tsic_stop(Observe(s))
    /\ thr' = [thr EXCEPT !.calls = @ + 1, !.last_call = "stop"]
    /\ UNCHANGED <<tx, drv>>

\* measure_once(timeout): last_timestamp = self.__timestamp
MO_Enter(timeout) ==
    /\ thr.pc = "idle" /\ thr.calls < MaxCalls
    /\ thr' = [thr EXCEPT !.pc = "mo_339",
                          !.timeout = timeout,
                          !.last_timestamp = s.timestamp,
                          !.entry_clock = s.clock,
                          !.drv_idle_at_entry = (drv.pc = "idle")]
    /\ s' = Observe(s)
    /\ UNCHANGED <<tx, drv>>

\* was_started = self.is_started()
MO_IsStarted ==
    /\ thr.pc = "mo_339"
    /\ thr' = [thr EXCEPT !.pc = "mo_340", !.was_started = is_started(s)]
    /\ UNCHANGED <<s, tx, drv>>

\* if not was_started: self.start()
MO_Start ==
    /\ thr.pc = "mo_340"
    /\ s' = IF thr.was_started THEN s ELSE tsic_start(s, "none")
    /\ thr' = [thr EXCEPT !.pc = "mo_343"]
    /\ UNCHANGED <<tx, drv>>

\* wait that returns at once, whatever the timeout
WaitDeadline_now(timeout, now) == now

\* the deadline of wait(timeout) begun at time now
WaitDeadline(timeout, now) == IF IsNone(timeout) THEN 0 ELSE now + Val(timeout)

\* with self.__measure_waiting: self.__measure_waiting.wait(timeout), begun
MO_WaitBegin ==
    /\ thr.pc = "mo_343"
    /\ s' = [s EXCEPT !.waiters = @ \cup {Me}]
    /\ thr' = [thr EXCEPT !.pc = "mo_344", !.deadline = WaitDeadline(thr.timeout, s.clock),
                          !.meas_at_wait = s.measurements]
    /\ UNCHANGED <<tx, drv>>

TimedOut == ~IsNone(thr.timeout) /\ s.clock >= thr.deadline

\* wait returns: notified, or timed out
MO_WaitEnd ==
    /\ thr.pc = "mo_344"
    /\ Me \notin s.waiters \/ TimedOut
    /\ s' = [s EXCEPT !.waiters = @ \ {Me}]
    /\ thr' = [thr EXCEPT !.pc = "mo_346", !.ts_at_wake = s.timestamp,
                          !.timed_out = TimedOut]
    /\ UNCHANGED <<tx, drv>>

\* measure_once that stops the channel whether or not it started it
MO_Stop_always ==
    /\ thr.pc = "mo_346"
    /\ s' = tsic_stop(s)
    /\ thr' = [thr EXCEPT !.pc = "mo_349"]
    /\ UNCHANGED <<tx, drv>>

\* if not was_started: self.stop()
MO_Stop ==
    /\ thr.pc = "mo_346"
    /\ s' = IF thr.was_started THEN s ELSE tsic_stop(s)
    /\ thr' = [thr EXCEPT !.pc = "mo_349"]
    /\ UNCHANGED <<tx, drv>>

\* measurement = self.measurement
MO_Read ==
    /\ thr.pc = "mo_349"
    /\ thr' = [thr EXCEPT !.pc = "mo_350", !.measurement = measurement(s),
                          !.meas_at_read = s.measurements]
    /\ UNCHANGED <<s, tx, drv>>

\* measure_once without the comparison of the timestamps
MO_Result_always(last_timestamp, m) == m

\* what measure_once returns for its two locals
MO_Result(last_timestamp, m) ==
    IF last_timestamp # m.seconds_since_epoch THEN m ELSE UNDEF

\* the comparison of the timestamps, up to the return statement
MO_Compare ==
    /\ thr.pc = "mo_350"
    /\ thr' = [thr EXCEPT !.pc = "mo_return",
                          !.result = MO_Result(thr.last_timestamp, thr.measurement)]
    /\ UNCHANGED <<s, tx, drv>>

\* measure_once returns and its locals are gone
MO_Return ==
    /\ thr.pc = "mo_return"
    /\ thr' = [ThrInit EXCEPT !.calls = thr.calls + 1, !.last_call = "measure_once",
                              !.registered = thr.registered]
    /\ UNCHANGED <<s, tx, drv>>

\* the decoder completes a packet and calls the packet callback: the test
\* of status and length and the locked block of __packet_received
DrvPacket(f) ==
    /\ drv.pc = "idle"
    /\ s.pi_callback
    /\ drv.n < MaxDeliveries
    /\ LET s1 == [s EXCEPT !.delivered = Append(@, f)]
       IN  IF IsOk2(f)
           THEN /\ s' = PR_update(s1, f.bytes)
                /\ drv' = [pc |-> "pr_372", m |-> measurement(s'), n |-> drv.n + 1]
           ELSE /\ s' = s1
                /\ drv' = [drv EXCEPT !.n = @ + 1]
    /\ UNCHANGED <<tx, thr>>

\* the call of the registered callback; what it raises is caught and
\* logged by __call_packet_callback
DrvCallback ==
    /\ drv.pc = "pr_372"
    /\ LET s2 == PR_callback(s, drv.m)
       IN  IF s2.exc
           THEN /\ s' = [s2 EXCEPT !.exc = FALSE, !.logged = @ + 1]
                /\ drv' = [drv EXCEPT !.pc = "idle", !.m = UNDEF]
           ELSE /\ s' = s2
                /\ drv' = [drv EXCEPT !.pc = "pr_375"]
    /\ UNCHANGED <<tx, thr>>

\* with self.__measure_waiting: notifyAll()
DrvNotify ==
    /\ drv.pc = "pr_375"
    /\ s' = PR_notify(s)
    /\ drv' = [drv EXCEPT !.pc = "idle", !.m = UNDEF]
    /\ UNCHANGED <<tx, thr>>

\* time passes: up to MaxClock, and on to the deadline of a wait
TimePasses ==
    /\ s.clock < MaxClock \/ (thr.pc = "mo_344" /\ ~TimedOut /\ ~IsNone(thr.timeout))
    /\ s' = [s EXCEPT !.clock = @ + 1]
    /\ UNCHANGED <<tx, thr, drv>>

InitMO ==
    /\ s = Constructed("TSIC306")
    /\ tx = TxInit(FALSE, 1)
    /\ thr = ThrInit
    /\ drv = DrvInit

CallerStep ==
    \/ MO_IsStarted
    \/ MO_Start
    \/ MO_WaitBegin
    \/ MO_WaitEnd
    \/ MO_Stop
    \/ MO_Read
    \/ MO_Compare
    \/ MO_Return

DrvStep ==
    \/ DrvCallback
    \/ DrvNotify

NextMO ==
    \/ \E cb \in Callbacks : CallStart(cb)
    \/ CallStop
    \/ \E timeout \in Timeouts : MO_Enter(timeout)
    \/ CallerStep
    \/ \E f \in PacketsMO : DrvPacket(f)
    \/ DrvStep
    \/ TimePasses

SpecMO == InitMO /\ [][NextMO]_vars

\* the threads are scheduled, and time passes; no packet has to arrive
SpecMOFair == SpecMO /\ WF_vars(CallerStep) /\ WF_vars(DrvStep) /\ WF_vars(TimePasses)

---------------------------------------------------------------------------
(* measure_once *)

\* a timestamp as a number, None below every time
TsNum(o) == IF IsNone(o) THEN -1 ELSE Val(o)

InMeasureOnce == thr.pc \in {"mo_339", "mo_340", "mo_343", "mo_344", "mo_346", "mo_349"}

\* C6: a Measurement on which the registered callback raises is in the
\* cache, and a thread that was waiting in measure_once when it was made
\* has been notified once the packet handler is through
C6_WaitersNotifiedWhenCallbackRaises ==
    (drv.pc = "idle" /\ s.callback = "raising" /\ thr.pc = "mo_344"
     /\ s.measurements > thr.meas_at_wait) =>
        /\ TsNum(s.timestamp) > TsNum(thr.last_timestamp)
        /\ Me \notin s.waiters

\* C8: measure_once returns the cached Measurement it read after the wait
\* if the timestamp of that differs from the timestamp at entry, and UNDEF if
\* not; a Measurement it returns never has the timestamp seen at entry
C8_ReturnsNewOrUndef ==
    thr.pc = "mo_return" =>
        /\ TsNum(thr.measurement.seconds_since_epoch) >= TsNum(thr.ts_at_wake)
        /\ thr.result = IF thr.measurement.seconds_since_epoch # thr.last_timestamp
                        THEN thr.measurement
                        ELSE UNDEF
        /\ thr.result # UNDEF => thr.result.seconds_since_epoch # thr.last_timestamp
        /\ thr.result = UNDEF => thr.ts_at_wake = thr.last_timestamp

C8_Witness ==
    /\ thr.pc = "mo_return"
    /\ thr.last_timestamp = Some(0)
    /\ thr.timeout = Some(1)
    /\ thr.result = UNDEF
    /\ s.timestamp = Some(0)

\* a Measurement has been made since the call took its snapshot, on a
\* channel whose callback does not raise
ProducedAfterSnapshot ==
    InMeasureOnce /\ s.measurements > 0 /\ s.callback # "raising"

\* C9: once a Measurement has been made after the snapshot of a call of
\* measure_once, that call comes to return a Measurement
C9_EventuallyReturns ==
    \A i \in 0..MaxCalls :
        [](ProducedAfterSnapshot /\ thr.calls = i =>
              <>(thr.pc = "mo_return" /\ thr.calls = i /\ thr.result # UNDEF))

\* C10: measure_once(timeout) on a channel that is not started, with no
\* packet handler running at entry and no packet during the call, returns
\* UNDEF, and not before timeout has passed since the entry
C10_TimesOutOnSilence ==
    (thr.pc = "mo_return" /\ ~thr.was_started /\ ~IsNone(thr.timeout)
     /\ thr.drv_idle_at_entry /\ s.delivered = <<>>) =>
        /\ thr.result = UNDEF
        /\ s.clock >= thr.entry_clock + Val(thr.timeout)

C10_Witness ==
    /\ thr.pc = "mo_return" /\ ~thr.was_started /\ thr.timeout = Some(1)
    /\ thr.drv_idle_at_entry /\ s.delivered = <<>>
    /\ thr.calls = 0
    /\ thr.result = UNDEF
    /\ s.clock = thr.entry_clock + 1

---------------------------------------------------------------------------
(* measure_once: wake-ups, and what counts as new *)

AfterWait == thr.pc \in {"mo_346", "mo_349", "mo_350", "mo_return"}

\* C11: the wait of measure_once ends with the timestamp of the cache as it
\* was at the entry of the call only when the timeout of the call has
\* elapsed
C11_WaitsForNewOrTimeout ==
    (AfterWait /\ thr.ts_at_wake = thr.last_timestamp) => thr.timed_out

Degree40 == Some(bytes_to_degree_celcius("TSIC306", <<4, 0>>))

\* C12: every OK frame of two bytes puts its temperature and a timestamp
\* that differs from the one before into the cache, also when the
\* temperature is the one before; and a call of measure_once that reads the
\* cache after a frame came in since its entry returns what it read, a
\* Measurement and not UNDEF
C12_NewnessByTimestamp ==
    [][/\ s'.measurements = s.measurements + 1 =>
            /\ s'.timestamp # s.timestamp
            /\ measurement(s') = Measurement(Degree40, Some(s.clock))
       /\ (thr.pc = "mo_350" /\ thr'.pc = "mo_return" /\ thr.meas_at_read > 0) =>
            /\ thr'.result = thr.measurement
            /\ thr'.result # UNDEF
            /\ thr'.result.degree_celsius = Degree40]_vars

\* the second call, which had the first frame in the cache at its entry,
\* returns the second frame with the same temperature
C12_Witness ==
    /\ thr.pc = "mo_return" /\ thr.calls = 1
    /\ thr.last_timestamp = Some(0)
    /\ thr.meas_at_read = 1
    /\ thr.result = Measurement(Degree40, Some(1))

---------------------------------------------------------------------------
(* The life cycle: the application thread calls start, stop and            *)
(* measure_once while the sensor sends a well-formed packet of two bytes.  *)
(* Each edge event is handled in one step by the pigpio thread.  A         *)
(* constructor that raised has left no object to call.                     *)

InitLife ==
    /\ \E connected \in BOOLEAN : s = New(connected, "TSIC306")
    /\ tx = [TxInit(FALSE, 1) EXCEPT !.stage = "pre"]
    /\ thr = ThrInit
    /\ drv = DrvInit

\* the byte the sensor sends here, twice in each packet
LifeByte == 167

\* the bit of LifeByte that comes after nbits bits
LifeBit(nbits) == (LifeByte \div Pow2(DATA_BITS - (nbits + 1))) % 2

Sensor ==
    \/ SendFirstHigh
    \/ (tx.pkt = 0 /\ SendPacketStart(2, NoFault))
    \/ SendCalEnd
    \/ SendFall
    \/ \E b \in 0..1 : (tx.nbits < DATA_BITS => b = LifeBit(tx.nbits)) /\ SendRise(b)
    \/ SendByteGap
    \/ SendTimeout
    \/ EndSilent

Application ==
    \/ (s.exists /\ \E cb \in Callbacks : CallStart(cb))
    \/ (s.exists /\ CallStop)
    \/ (s.exists /\ \E timeout \in Timeouts : MO_Enter(timeout))
    \/ (s.exists /\ CallerStep)

NextLife ==
    \/ Sensor
    \/ Application
    \/ TimePasses

SpecLife == InitLife /\ [][NextLife]_vars

---------------------------------------------------------------------------
(* measure_once and the started state *)

Waiting == thr.pc \in {"mo_343", "mo_344", "mo_346"}

Waited == thr.pc \in {"mo_349", "mo_350", "mo_return"}

\* C13: during a call of measure_once by the one caller no other thread
\* changes is_started(); the channel is started for the wait; after the
\* wait is_started() is what it was before the call; and a call on a channel
\* that was started changes nothing of the channel (callback, subscription,
\* watchdog, decoder state, calls of the pi) but the set of waiting threads
C13_StartedStateRestored ==
    [][/\ (thr.pc = "mo_339" /\ thr'.pc = "mo_340") => thr'.was_started = is_started(s)
       /\ (thr.pc # "idle" /\ thr' = thr) => is_started(s') = is_started(s)
       /\ Waiting' => is_started(s')
       /\ Waited' => is_started(s') = thr'.was_started
       /\ (thr.was_started /\ (Waiting \/ thr.pc = "mo_340") /\ thr' # thr) =>
              s' = [s EXCEPT !.waiters = s'.waiters]]_vars

\* a call returns on a channel that was started, with a frame in progress
C13_Witness ==
    /\ thr.pc = "mo_return" /\ thr.was_started
    /\ is_started(s) /\ s.callback = "good"
    /\ s.received_bytes = Some(<<167, 1>>) /\ s.bit_count = 1

\* a call returns on a channel that it started and stopped
C13_WitnessStopped ==
    /\ thr.pc = "mo_return" /\ ~thr.was_started
    /\ ~is_started(s) /\ s.subs = 0
    /\ thr.result.seconds_since_epoch = Some(0)

---------------------------------------------------------------------------
(* start and stop *)

NoTicks(st) == IsNone(st.last_low_tick) /\ IsNone(st.last_high_tick)

\* C14: the connection never holds more than one subscription of the
\* channel, and holds one exactly while the channel has its handle; after a
\* call of start there is one and after a call of stop none, until the next
\* call; and a call of
\* start leaves the decoder without a frame, bit state and ticks, and
\* delivers nothing
C14_StartIdempotent ==
    [][/\ s'.subs = (IF s'.pi_callback THEN 1 ELSE 0)
       /\ (thr'.pc = "idle" /\ thr'.last_call = "start") => s'.subs = 1 /\ is_started(s')
       /\ (thr'.pc = "idle" /\ thr'.last_call = "stop") => s'.subs = 0 /\ ~is_started(s')
       /\ (thr'.last_call = "start" /\ thr'.calls = thr.calls + 1) =>
              /\ Cleared(s') /\ NoTicks(s')
              /\ s'.delivered = <<>> /\ s'.measurements = 0 /\ s'.cb_who = <<>>]_vars

\* the second call in the middle of the second byte of a packet was start
C14_Witness ==
    /\ thr.last_call = "start" /\ thr.calls = 2
    /\ tx.stage = "pulse" /\ tx.byteIx = 1 /\ tx.nbits = 4
    /\ tx.ev = Some([level |-> LOW, tick |-> tx.now])
    /\ s.subs = 1 /\ Cleared(s) /\ NoTicks(s) /\ s.delivered = <<>>

StopCalled == thr'.last_call = "stop" /\ thr'.calls = thr.calls + 1

\* C15: stop() on a started channel sets the watchdog to 0 and cancels the
\* subscription, in this order and with no other call of the pi, and leaves
\* no bytes, bit count 0, parity 0, no calibration width, no ticks and
\* is_started() false; stop() on a channel that is not started raises
\* nothing, makes no call of the pi and changes nothing of the channel
C15_StopClears ==
    [][StopCalled =>
          /\ ~is_started(s') /\ s'.subs = 0 /\ s'.watchdog = 0
          /\ Cleared(s') /\ NoTicks(s')
          /\ ~s'.exc /\ s'.error = ""
          /\ IF is_started(s)
             THEN s'.pi_log = <<PiCall("set_watchdog", 0), PiCall("cancel", 0)>>
             ELSE s' = Observe(s)]_vars

\* stop() was called after the ninth bit of the first byte, with the
\* watchdog armed and a frame in progress
C15_Witness ==
    /\ thr.last_call = "stop" /\ thr.calls = 2
    /\ tx.stage = "high" /\ tx.byteIx = 0 /\ tx.nbits = BITS_PER_BYTE
    /\ tx.ev = Some([level |-> HIGH, tick |-> tx.now])
    /\ s.pi_log = <<PiCall("set_watchdog", 0), PiCall("cancel", 0)>>
    /\ s.watchdog = 0 /\ s.subs = 0 /\ Cleared(s) /\ NoTicks(s)

\* stop() was called on a channel that was not started
C15_WitnessNotStarted ==
    /\ thr.last_call = "stop" /\ thr.calls = 1
    /\ s.pi_log = <<>> /\ ~is_started(s)

---------------------------------------------------------------------------
(* callbacks passed to start *)

\* number of the calls in a log of callback invocations that went to cb
CallsTo(log, cb) == Cardinality({i \in 1..Len(log) : log[i] = cb})

\* C19: when the application has passed a callback that raises and a
\* callback that returns to start of the channel, the callback that returns
\* has been called for every Measurement made
C19_GoodCallbackGetsEvery ==
    {"good", "raising"} \subseteq thr.registered =>
        CallsTo(s.cb_who, "good") = s.measurements

---------------------------------------------------------------------------
(* construction *)

\* C20: the constructor on a pi that is not connected has raised
\* PigpioNotConnectedError and made no call of the pi, there is no channel
\* object, and so never a subscription, a watchdog, a frame or a call
\* (of the state only the time of the system changes)
C20_ConstructionFails ==
    ~s.connected =>
        /\ s.error = "PigpioNotConnectedError" /\ ~s.exists
        /\ s.pi_log = <<>> /\ s.subs = 0 /\ s.watchdog = 0
        /\ [s EXCEPT !.clock = 0] = New(FALSE, "TSIC306")
        /\ thr = ThrInit

\* the sensor has sent a packet to the pi that is not connected
C20_Witness ==
    /\ ~s.connected /\ s.error = "PigpioNotConnectedError" /\ ~s.exists
    /\ tx.stage = "done" /\ tx.sent = <<167, 167>>

---------------------------------------------------------------------------
(* stop() on the application thread while the pigpio thread runs           *)
(* __gpio_callback: both statement by statement.  ZacWireInputChannel has  *)
(* no lock.  The calls that __gpio_callback makes (__check_parity,         *)
(* __pass_any_packet_to_callback, __reset_packet) are one step each.  The  *)
(* event is any one of the events of a well-formed packet of the bytes     *)
(* LifeByte, LifeByte, the events before it having been handled.           *)

\* bit i (1..9) of the byte on the line: eight data bits, even parity
LineBit(i) ==
    IF i <= DATA_BITS THEN LifeBit(i - 1)
    ELSE (LifeBit(0) + LifeBit(1) + LifeBit(2) + LifeBit(3) + LifeBit(4) + LifeBit(5)
          + LifeBit(6) + LifeBit(7)) % 2

\* edge j (1..20) of a byte that begins at time t0
ByteEdge(p, t0, j) ==
    LET i == (j - 1) \div 2
        pulse == IF i = 0 THEN p.cal ELSE IF LineBit(i) = 1 THEN p.short ELSE p.long
    IN  IF j % 2 = 1
        THEN [level |-> LOW, tick |-> TickAdd(p.start, t0 + i * p.window)]
        ELSE [level |-> HIGH, tick |-> TickAdd(p.start, t0 + i * p.window + pulse)]

EdgesPerByte == 2 * (BITS_PER_BYTE + 1)

\* the events of the packet: the line goes high, two bytes, the TIMEOUT
RaceEvents ==
    LET p == Profiles[1]
        last == IF LineBit(BITS_PER_BYTE) = 1 THEN p.short ELSE p.long
        t1 == p.idle
        t2 == t1 + BITS_PER_BYTE * p.window + last + p.gap
        end == t2 + BITS_PER_BYTE * p.window + last
    IN  <<[level |-> HIGH, tick |-> p.start]>>
        \o [j \in 1..EdgesPerByte |-> ByteEdge(p, t1, j)]
        \o [j \in 1..EdgesPerByte |-> ByteEdge(p, t2, j)]
        \o <<[level |-> TIMEOUT, tick |-> TickAdd(p.start, end)]>>

\* the channel after start("good") and the first k events
RECURSIVE DecoderAfter(_)
DecoderAfter(k) ==
    IF k = 0
    THEN tsic_start(Constructed("TSIC306"), "good")
    ELSE Event(DecoderAfter(k - 1), RaceEvents[k].level, RaceEvents[k].tick)

\* the pigpio thread in __gpio_callback: the statement it is at, the
\* arguments, the locals, and the exception that ended it
Handler(pc, level, tick, ticks, bit, error) ==
    [pc |-> pc, level |-> level, tick |-> tick, ticks |-> ticks, bit |-> bit,
     error |-> error]

Goto(st, h, pc) == [st |-> st, h |-> [h EXCEPT !.pc = pc]]

Raise(st, h, error) == [st |-> st, h |-> [h EXCEPT !.pc = "failed", !.error = error]]

\* one statement of __gpio_callback; the statement is named by its line
gpio_callback_step(st, h) ==
    CASE h.pc = "g135" ->
            Goto(st, h, CASE h.level = LOW -> "g137"
                          [] h.level = HIGH -> "g165"
                          [] h.level = TIMEOUT -> "g193"
                          [] OTHER -> "done")
      [] h.pc = "g137" ->
            Goto(st, h, IF IsNone(st.last_high_tick) THEN "g161" ELSE "g138")
      [] h.pc = "g138" ->
            IF IsNone(st.last_high_tick) THEN Raise(st, h, "TypeError")
            ELSE [st |-> st,
                  h |-> [h EXCEPT !.pc = "g140",
                                  !.ticks = tickDiff(Val(st.last_high_tick), h.tick)]]
      [] h.pc = "g140" ->
            Goto(st, h, IF TicksGT(h.ticks, PACKET_START_TICKS) THEN "g143" ELSE "g149")
      [] h.pc = "g143" -> Goto(pass_any_packet_to_callback(st, STATUS_OK), h, "g144")
      [] h.pc = "g144" -> Goto([st EXCEPT !.received_bytes = Some(<<0>>)], h, "g145")
      [] h.pc = "g145" -> Goto([st EXCEPT !.parity = 0], h, "g146")
      [] h.pc = "g146" -> Goto([st EXCEPT !.bit_count = 0], h, "g147")
      [] h.pc = "g147" -> Goto([st EXCEPT !.bit_ticks = NoneV], h, "g161")
      [] h.pc = "g149" ->
            Goto(st, h, IF ~IsNone(st.received_bytes) /\ TicksGT(h.ticks, BYTE_START_TICKS)
                        THEN "g152" ELSE "g161")
      [] h.pc = "g152" -> Goto(st, h, IF st.bit_count = BITS_PER_BYTE THEN "g153" ELSE "g158")
      [] h.pc = "g153" ->
            IF IsNone(st.received_bytes) THEN Raise(st, h, "AttributeError")
            ELSE Goto([st EXCEPT !.received_bytes = Some(Append(Val(@), 0))], h, "g154")
      [] h.pc = "g154" -> Goto([st EXCEPT !.bit_ticks = NoneV], h, "g155")
      [] h.pc = "g155" -> Goto([st EXCEPT !.bit_count = 0], h, "g156")
      [] h.pc = "g156" -> Goto([st EXCEPT !.parity = 0], h, "g161")
      [] h.pc = "g158" ->
            Goto(pass_any_packet_to_callback(st, STATUS_BIT_COUNT_ERROR), h, "g159")
      [] h.pc = "g159" -> Goto(reset_packet(st), h, "g161")
      [] h.pc = "g161" -> Goto([st EXCEPT !.last_low_tick = Some(h.tick)], h, "done")
      [] h.pc = "g165" ->
            Goto(st, h, IF IsNone(st.last_low_tick) THEN "g190" ELSE "g166")
      [] h.pc = "g166" ->
            IF IsNone(st.last_low_tick) THEN Raise(st, h, "TypeError")
            ELSE [st |-> st,
                  h |-> [h EXCEPT !.pc = "g169",
                                  !.ticks = tickDiff(Val(st.last_low_tick), h.tick)]]
      [] h.pc = "g169" ->
            Goto(st, h, IF IsNone(st.received_bytes) THEN "g190" ELSE "g170")
      [] h.pc = "g170" -> Goto(st, h, IF IsNone(st.bit_ticks) THEN "g172" ELSE "g175")
      [] h.pc = "g172" -> Goto([st EXCEPT !.bit_ticks = Some(h.ticks)], h, "g190")
      [] h.pc = "g175" ->
            IF IsNone(st.bit_ticks) THEN Raise(st, h, "TypeError")
            ELSE [st |-> st,
                  h |-> [h EXCEPT !.pc = "g176",
                                  !.bit = IF TicksGreater(h.ticks, Val(st.bit_ticks))
                                          THEN 0 ELSE 1]]
      [] h.pc = "g176" -> Goto(st, h, IF st.bit_count < DATA_BITS THEN "g178" ELSE "g179")
      [] h.pc = "g178" ->
            IF IsNone(st.received_bytes) THEN Raise(st, h, "TypeError")
            ELSE LET bytes == Val(st.received_bytes)
                     n == Len(bytes)
                 IN  Goto([st EXCEPT !.received_bytes =
                                         Some([bytes EXCEPT ![n] = bytes[n] * 2 + h.bit])],
                          h, "g179")
      [] h.pc = "g179" -> Goto([st EXCEPT !.bit_count = @ + 1], h, "g181")
      [] h.pc = "g181" -> Goto([st EXCEPT !.parity = @ + h.bit], h, "g182")
      [] h.pc = "g182" ->
            Goto(st, h, IF st.bit_count = BITS_PER_BYTE THEN "g183"
                        ELSE IF st.bit_count > BITS_PER_BYTE THEN "g187" ELSE "g190")
      [] h.pc = "g183" -> Goto(check_parity(st), h, "g184")
      [] h.pc = "g184" -> Goto(set_watchdog(st, WATCHDOG_MS), h, "g190")
      [] h.pc = "g187" ->
            Goto(pass_any_packet_to_callback(st, STATUS_BIT_COUNT_ERROR), h, "g188")
      [] h.pc = "g188" -> Goto(reset_packet(st), h, "g190")
      [] h.pc = "g190" -> Goto([st EXCEPT !.last_high_tick = Some(h.tick)], h, "done")
      [] h.pc = "g193" -> Goto(pass_any_packet_to_callback(st, STATUS_OK), h, "g194")
      [] h.pc = "g194" -> Goto(reset_packet(st), h, "done")

\* one statement of ZacWireInputChannel.stop (and of __reset_packet that it
\* calls), named by its line; the result is the state and the next statement
stop_step(st, pc) ==
    CASE pc = "s96" -> [st |-> st, pc |-> IF st.pi_callback THEN "s97" ELSE "s123"]
      [] pc = "s97" -> [st |-> set_watchdog(st, 0), pc |-> "s98"]
      [] pc = "s98" -> [st |-> pi_cancel(st), pc |-> "s99"]
      [] pc = "s99" -> [st |-> [st EXCEPT !.pi_callback = FALSE], pc |-> "s123"]
      [] pc = "s123" -> [st |-> [st EXCEPT !.bit_ticks = NoneV], pc |-> "s124"]
      [] pc = "s124" -> [st |-> [st EXCEPT !.parity = 0], pc |-> "s125"]
      [] pc = "s125" -> [st |-> [st EXCEPT !.bit_count = 0], pc |-> "s126"]
      [] pc = "s126" -> [st |-> [st EXCEPT !.received_bytes = NoneV], pc |-> "s101"]
      [] pc = "s101" -> [st |-> [st EXCEPT !.last_low_tick = NoneV], pc |-> "s102"]
      [] pc = "s102" -> [st |-> [st EXCEPT !.last_high_tick = NoneV], pc |-> "done"]

\* the pigpio thread has called __gpio_callback for event k + 1 and the
\* application thread has called stop()
InitStop ==
    \E k \in 0..(Len(RaceEvents) - 1) :
        /\ s = Observe(DecoderAfter(k))
        /\ tx = [k |-> k]
        /\ drv = Handler("g135", RaceEvents[k + 1].level, RaceEvents[k + 1].tick,
                         Tick(0, 0), 0, "")
        /\ thr = [pc |-> "s96"]

HandlerStep ==
    /\ drv.pc \notin {"done", "failed"}
    /\ LET r == gpio_callback_step(s, drv)
       IN  s' = r.st /\ drv' = r.h
    /\ UNCHANGED <<tx, thr>>

StopStep ==
    /\ thr.pc # "done"
    /\ LET r == stop_step(s, thr.pc)
       IN  s' = r.st /\ thr' = [thr EXCEPT !.pc = r.pc]
    /\ UNCHANGED <<tx, drv>>

NextStop ==
    \/ HandlerStep
    \/ StopStep

SpecStop == InitStop /\ [][NextStop]_vars

\* C16: a handler that runs while stop() runs does not end in an exception,
\* and when both have ended the decoder holds no frame, bit count 0,
\* parity 0, no calibration width, and the watchdog is not armed
C16_StopSafeAgainstCallback ==
    /\ drv.error = ""
    /\ (thr.pc = "done" /\ drv.pc = "done") => Cleared(s) /\ s.watchdog = 0

\* run alone, the statements of the handler do what the handler does
HandlerStepsAgree ==
    (thr.pc = "s96" /\ drv.pc = "done") =>
        s = Event(Observe(DecoderAfter(tx.k)), drv.level, drv.tick)

---------------------------------------------------------------------------
(* The cache of the last Measurement and the lock.  The pigpio thread runs *)
(* __packet_received and the application thread the measurement property,  *)
(* start and stop, statement by statement where the lock is concerned.     *)
(* s.lock is the thread that holds self.__lock; s.unguarded collects the   *)
(* lines that touch the cache or the callback slot without holding it.     *)
(* tx.hist is the list of the Measurements made, in the order of making.   *)

PacketsCache ==
    {Frame(STATUS_OK, <<4, 0>>), Frame(STATUS_OK, <<0, 0>>),
     Frame(STATUS_PARITY_ERROR, <<4, 0>>)}

\* an access by thread who at a line of the source
Access(st, who, line) ==
    IF st.lock = Some(who) THEN st ELSE [st EXCEPT !.unguarded = @ \cup {line}]

\* with self.__lock: entered by who (the lock is reentrant)
Acquire(st, who) == [st EXCEPT !.lock = Some(who)]

Release(st) == [st EXCEPT !.lock = NoneV]

\* a getter that does not wait for the lock
GetterMayEnter_nolock(st) == TRUE

\* the measurement property may enter its with self.__lock block
GetterMayEnter(st) == IsNone(st.lock)

\* self.__degree_celsius = self.tsic_type.bytes_to_degree_celcius(packet_bytes)
PR_set_degree(st, packet_bytes) ==
    [st EXCEPT !.degree_celsius = Some(bytes_to_degree_celcius(st.tsic_type, packet_bytes))]

\* self.__timestamp = time.time()
PR_set_timestamp(st) ==
    [st EXCEPT !.timestamp = Some(st.clock), !.clock = @ + 1, !.measurements = @ + 1]

Latest(hist) == IF hist = <<>> THEN UNDEF ELSE hist[Len(hist)]

InitCache ==
    /\ s = Constructed("TSIC306")
    /\ tx = [hist |-> <<>>]
    /\ thr = [pc |-> "idle", calls |-> 0, result |-> UNDEF, seen |-> 0, last_call |-> ""]
    /\ drv = [pc |-> "idle", n |-> 0, bytes |-> <<>>, m |-> UNDEF]

\* start(cb): the callback slot is written at line 309
CacheStart(cb) ==
    /\ thr.pc = "idle" /\ thr.calls < MaxCalls
    /\ s' = Access(tsic_start(s, cb), "main", 309)
    /\ thr' = [thr EXCEPT !.calls = @ + 1, !.last_call = "start"]
    /\ UNCHANGED <<tx, drv>>

CacheStop ==
    /\ thr.pc = "idle" /\ thr.calls < MaxCalls
    /\ s' = tsic_stop(s)
    /\ thr' = [thr EXCEPT !.calls = @ + 1, !.last_call = "stop"]
    /\ UNCHANGED <<tx, drv>>

\* measurement: with self.__lock
GetEnter ==
    /\ thr.pc = "idle" /\ thr.calls < MaxCalls
    /\ GetterMayEnter(s)
    /\ s' = Acquire(s, "main")
    /\ thr' = [thr EXCEPT !.pc = "m361", !.last_call = "measurement"]
    /\ UNCHANGED <<tx, drv>>

\* return Measurement(self.__degree_celsius, self.__timestamp)
GetRead ==
    /\ thr.pc = "m361"
    /\ s' = Release(Access(s, "main", 361))
    /\ thr' = [thr EXCEPT !.pc = "got", !.result = measurement(s), !.seen = Len(tx.hist)]
    /\ UNCHANGED <<tx, drv>>

GetReturn ==
    /\ thr.pc = "got"
    /\ thr' = [thr EXCEPT !.pc = "idle", !.calls = @ + 1, !.result = UNDEF, !.seen = 0]
    /\ UNCHANGED <<s, tx, drv>>

\* __packet_received(status, packet_bytes), line 364
CachePacket(f) ==
    /\ drv.pc = "idle" /\ s.pi_callback /\ drv.n < MaxDeliveries
    /\ drv' = [drv EXCEPT !.pc = IF IsOk2(f) THEN "p366" ELSE "idle",
                          !.n = @ + 1, !.bytes = IF IsOk2(f) THEN f.bytes ELSE <<>>]
    /\ UNCHANGED <<s, tx, thr>>

\* with self.__lock
CacheLock ==
    /\ drv.pc = "p366"
    /\ s.lock \in {NoneV, Some("drv")}
    /\ s' = Acquire(s, "drv")
    /\ drv' = [drv EXCEPT !.pc = "p367"]
    /\ UNCHANGED <<tx, thr>>

CacheDegree ==
    /\ drv.pc = "p367"
    /\ s' = PR_set_degree(Access(s, "drv", 367), drv.bytes)
    /\ drv' = [drv EXCEPT !.pc = "p368"]
    /\ UNCHANGED <<tx, thr>>

\* with the timestamp the Measurement is made
CacheTimestamp ==
    /\ drv.pc = "p368"
    /\ s' = PR_set_timestamp(Access(s, "drv", 368))
    /\ tx' = [tx EXCEPT !.hist = Append(@, measurement(s'))]
    /\ drv' = [drv EXCEPT !.pc = "p369"]
    /\ UNCHANGED thr

\* measurement = self.measurement, and the end of the with block
CacheRead ==
    /\ drv.pc = "p369"
    /\ s' = Release(Access(s, "drv", 361))
    /\ drv' = [drv EXCEPT !.pc = "p372", !.m = measurement(s)]
    /\ UNCHANGED <<tx, thr>>

\* lines 372, 373: the callback slot is read and the callback called; what
\* it raises is caught in __call_packet_callback
CacheCallback ==
    /\ drv.pc = "p372"
    /\ LET s2 == PR_callback(Access(s, "drv", 372), drv.m)
       IN  IF s2.exc
           THEN /\ s' = [s2 EXCEPT !.exc = FALSE, !.logged = @ + 1]
                /\ drv' = [drv EXCEPT !.pc = "idle", !.bytes = <<>>, !.m = UNDEF]
           ELSE /\ s' = s2
                /\ drv' = [drv EXCEPT !.pc = "p375"]
    /\ UNCHANGED <<tx, thr>>

CacheNotify ==
    /\ drv.pc = "p375"
    /\ s' = PR_notify(s)
    /\ drv' = [drv EXCEPT !.pc = "idle", !.bytes = <<>>, !.m = UNDEF]
    /\ UNCHANGED <<tx, thr>>

NextCache ==
    \/ \E cb \in Callbacks : CacheStart(cb)
    \/ CacheStop
    \/ GetEnter
    \/ GetRead
    \/ GetReturn
    \/ \E f \in PacketsCache : CachePacket(f)
    \/ CacheLock
    \/ CacheDegree
    \/ CacheTimestamp
    \/ CacheRead
    \/ CacheCallback
    \/ CacheNotify

SpecCache == InitCache /\ [][NextCache]_vars

\* C17: what the measurement property returns is UNDEF while no
\* Measurement has been made and else the Measurement made last before the
\* read, temperature and timestamp of the same frame; whenever the lock is
\* free the cache holds the Measurement made last; stop() leaves the cache
\* as it is
C17_CacheHoldsLatest ==
    [][/\ thr'.pc = "got" =>
            thr'.result = (IF thr'.seen = 0 THEN UNDEF ELSE tx'.hist[thr'.seen])
       /\ IsNone(s'.lock) => measurement(s') = Latest(tx'.hist)
       /\ (thr'.last_call = "stop" /\ thr'.calls = thr.calls + 1) =>
            measurement(s') = measurement(s)]_vars

\* the property returns the second Measurement, which differs from the
\* first in temperature and timestamp
C17_Witness ==
    /\ thr.pc = "got" /\ thr.seen = 2
    /\ tx.hist[1].degree_celsius # tx.hist[2].degree_celsius
    /\ thr.result = tx.hist[2]
    /\ thr.result.seconds_since_epoch = Some(1)

\* the property has returned (None, None)
C17_WitnessUndef == thr.pc = "got" /\ thr.seen = 0 /\ thr.result = UNDEF /\ thr.calls = 1

\* C18: no line touches the cached temperature and timestamp or the
\* callback slot without holding the lock of the channel
C18_AllAccessUnderLock == s.unguarded = {}

---------------------------------------------------------------------------
(* The connection to the pigpio daemon becomes unavailable (pi.connected   *)
(* is False) after the channel was constructed.  No event is delivered     *)
(* over a connection that is gone.  What set_watchdog and cancel do on     *)
(* such a connection is code of pigpio: they return or they raise.         *)

InitConn ==
    /\ s = Constructed("TSIC306")
    /\ tx = [TxInit(FALSE, 1) EXCEPT !.stage = "pre"]
    /\ thr = ThrInit
    /\ drv = DrvInit

PiDisconnect ==
    /\ s.connected
    /\ s' = [s EXCEPT !.connected = FALSE]
    /\ UNCHANGED <<tx, thr, drv>>

\* start(cb) where the stop() in it makes calls on the connection that is
\* gone, and one of them raises
ConnStartRaises(cb) ==
    /\ thr.pc = "idle" /\ thr.calls < MaxCalls
    /\ ~s.connected /\ s.pi_callback
    /\ s' = [Observe(s) EXCEPT !.error = "pigpio.error"]
    /\ thr' = [thr EXCEPT !.calls = @ + 1, !.last_call = "start"]
    /\ UNCHANGED <<tx, drv>>

NextConn ==
    \/ (s.connected /\ Sensor)
    \/ \E cb \in Callbacks : CallStart(cb)
    \/ \E cb \in Callbacks : ConnStartRaises(cb)
    \/ (s.connected /\ CallStop)
    \/ PiDisconnect

SpecConn == InitConn /\ [][NextConn]_vars

\* C21: a call of start on a channel whose connection is not available
\* ends in an error
C21_StartFailsWhenUnavailable ==
    [][(thr'.last_call = "start" /\ thr'.calls = thr.calls + 1 /\ ~s.connected) =>
          s'.error # ""]_vars

---------------------------------------------------------------------------
(* The value decoder as a pure function: a TsicType and two packet bytes   *)
(* are drawn, bytes_to_degree_celcius is applied to them and then to the   *)
(* following raw values one after the other.                               *)

\* resolution of a type in bits, as its docstring gives it
Bits(tsic_type) ==
    CASE tsic_type \in {"TSIC206", "TSIC306", "TSIC506"} -> 11
      [] tsic_type = "TSIC716" -> 14

RECURSIVE TwoTo(_)

TwoTo(n) == IF n = 0 THEN 1 ELSE 2 * TwoTo(n - 1)

RawMax(tsic_type) == TwoTo(Bits(tsic_type)) - 1

Raw(packet_bytes) == packet_bytes[1] * 256 + packet_bytes[2]

BytesOf(raw) == <<raw \div 256, raw % 256>>

InitDecode ==
    /\ \E tsic_type \in TsicTypes : \E raw \in 0 .. RawMax(tsic_type) :
           s = [pc |-> "input", tsic_type |-> tsic_type, packet_bytes |-> BytesOf(raw),
                previous |-> NoneV, degree_celsius |-> NoneV]
    /\ tx = NoneV /\ thr = NoneV /\ drv = NoneV

Decode ==
    /\ s.pc = "input"
    /\ s' = [s EXCEPT !.pc = "decoded",
                      !.degree_celsius =
                          Some(bytes_to_degree_celcius(s.tsic_type, s.packet_bytes))]
    /\ UNCHANGED <<tx, thr, drv>>

\* the same type applied to the next raw value
DecodeNext ==
    /\ s.pc # "input"
    /\ Raw(s.packet_bytes) < RawMax(s.tsic_type)
    /\ LET next_bytes == BytesOf(Raw(s.packet_bytes) + 1)
       IN  s' = [s EXCEPT !.pc = "next",
                          !.packet_bytes = next_bytes,
                          !.previous = s.degree_celsius,
                          !.degree_celsius =
                              Some(bytes_to_degree_celcius(s.tsic_type, next_bytes))]
    /\ UNCHANGED <<tx, thr, drv>>

NextDecode == Decode \/ DecodeNext

SpecDecode == InitDecode /\ [][NextDecode]_vars

\* fractions with positive denominators
FracLess(a, b) ==
    IF a.den = b.den THEN a.num < b.num ELSE a.num * b.den < b.num * a.den

FracIsInt(a, n) == a.num = n * a.den

low_temp(tsic_type) == IF tsic_type \in {"TSIC206", "TSIC306"} THEN -50 ELSE -10

high_temp(tsic_type) == IF tsic_type \in {"TSIC206", "TSIC306"} THEN 150 ELSE 60

\* C22: for each profile the decoded value of raw + 1 is greater than that
\* of raw for every raw in 0 .. 2^bits - 2 (so the value is strictly
\* increasing over 0 .. 2^bits - 1), raw = 0 gives low_temp and
\* raw = 2^bits - 1 gives high_temp
C22_Monotone ==
    /\ s.pc = "next" => FracLess(Val(s.previous), Val(s.degree_celsius))
    /\ (s.pc # "input" /\ Raw(s.packet_bytes) = 0) =>
           FracIsInt(Val(s.degree_celsius), low_temp(s.tsic_type))
    /\ (s.pc # "input" /\ Raw(s.packet_bytes) = TwoTo(Bits(s.tsic_type)) - 1) =>
           FracIsInt(Val(s.degree_celsius), high_temp(s.tsic_type))

C22_Witness ==
    /\ s.pc = "next" /\ s.tsic_type = "TSIC716"
    /\ s.packet_bytes = <<63, 255>>
    /\ s.degree_celsius = Some([num |-> 60 * 16383, den |-> 16383])

C22_WitnessLow ==
    /\ s.pc = "decoded" /\ s.tsic_type = "TSIC506"
    /\ s.packet_bytes = <<0, 0>>

\* the value the formula raw / divisor * (high - low) + low gives
Formula(raw, divisor, high, low) ==
    [num |-> raw * (high - low) + low * divisor, den |-> divisor]

FracEq(a, b) ==
    IF a.den = b.den THEN a.num = b.num ELSE a.num * b.den = b.num * a.den

\* C23: the decoded value is raw / 2047 * (high - low) + low for TSIC206,
\* TSIC306 (-50 .. 150) and TSIC506 (-10 .. 60), raw / 16383 * 70 - 10 for
\* TSIC716, with raw = byte0 * 256 + byte1; TSIC206 and TSIC306 give the
\* same value for every input; raw = 1024 on -50 .. 150 gives 50.05 to two
\* decimal places
C23_DecoderFormula ==
    s.pc # "input" =>
        LET raw == s.packet_bytes[1] * 256 + s.packet_bytes[2]
            v == Val(s.degree_celsius)
        IN  /\ s.tsic_type \in {"TSIC206", "TSIC306"} =>
                   /\ FracEq(v, Formula(raw, 2047, 150, -50))
                   /\ s.degree_celsius =
                          Some(bytes_to_degree_celcius("TSIC206", s.packet_bytes))
                   /\ s.degree_celsius =
                          Some(bytes_to_degree_celcius("TSIC306", s.packet_bytes))
                   /\ raw = 1024 =>
                          /\ 50045 * v.den < 1000 * v.num
                          /\ 1000 * v.num < 50055 * v.den
            /\ s.tsic_type = "TSIC506" => FracEq(v, Formula(raw, 2047, 60, -10))
            /\ s.tsic_type = "TSIC716" => FracEq(v, Formula(raw, 16383, 60, -10))

C23_Witness ==
    /\ s.pc = "decoded" /\ s.tsic_type = "TSIC206"
    /\ s.packet_bytes = <<4, 0>>
    /\ s.degree_celsius = Some([num |-> 102450, den |-> 2047])

C23_Witness716 ==
    /\ s.pc = "decoded" /\ s.tsic_type = "TSIC716"
    /\ s.packet_bytes = <<32, 1>>

---------------------------------------------------------------------------
(* The watchdog, TIMEOUT events, the tenth bit and the packet after an     *)
(* error, with the sensor of Spec                                          *)

\* the step delivers an event of this level to the handler
EventStep(level) ==
    /\ tx'.ev # tx.ev
    /\ Val(tx'.ev).level = level
    /\ s.pi_callback

\* the step is a rising edge that the decoder classifies as bit number n
\* of the current byte
BitStep(n) ==
    /\ EventStep(HIGH)
    /\ ~IsNone(s.received_bytes) /\ ~IsNone(s.bit_ticks)
    /\ s.bit_count = n - 1

\* the calls of the pi the step makes
NewPiCalls ==
    LET before == IF tx'.pkt # tx.pkt THEN 0 ELSE Len(s.pi_log)
    IN  SubSeq(s'.pi_log, before + 1, Len(s'.pi_log))

Contains(seq, x) == \E i \in 1..Len(seq) : seq[i] = x

HasStatus(frames, status) == \E i \in 1..Len(frames) : frames[i].status = status

\* C27: a step arms the 1 ms watchdog if and only if it is the ninth bit of
\* a byte and this bit does not end in a ParityError frame
C27_WatchdogOnValidParityOnly ==
    [][Contains(NewPiCalls, PiCall("set_watchdog", WATCHDOG_MS)) <=>
          (BitStep(BITS_PER_BYTE) /\ ~HasStatus(NewFrames, STATUS_PARITY_ERROR))]_vars

\* C28: a TIMEOUT event with a frame in progress delivers exactly that
\* frame, with status OK, and one with no frame in progress delivers
\* nothing; after either no frame is in progress; every frame delivered so
\* far holds at least one byte
C28_TimeoutFlushes ==
    [][/\ EventStep(TIMEOUT) =>
             /\ NewFrames = IF IsNone(s.received_bytes) THEN <<>>
                            ELSE <<Frame(STATUS_OK, Val(s.received_bytes))>>
             /\ Cleared(s')
       /\ \A i \in 1..Len(s'.delivered) : Len(s'.delivered[i].bytes) >= 1]_vars

C28_Witness ==
    /\ tx.stage = "done" /\ tx.nbytes = 3 /\ tx.prof = 2
    /\ ~IsNone(tx.ev) /\ Val(tx.ev).level = TIMEOUT
    /\ s.delivered = <<Frame(STATUS_OK, <<167, 0, 255>>)>>
    /\ Cleared(s)

\* a TIMEOUT event after the ParityError of the last byte: nothing more
C28_WitnessNoFrame ==
    /\ tx.stage = "done" /\ tx.fault = [kind |-> "flip", byte |-> 1, bit |-> 9]
    /\ ~IsNone(tx.ev) /\ Val(tx.ev).level = TIMEOUT
    /\ s.delivered = <<Frame(STATUS_PARITY_ERROR, <<167, 167>>)>>
    /\ Cleared(s)

\* C29: a rising edge classified as the tenth bit of a byte delivers the
\* frame in progress with status BitCountError and nothing else, and leaves
\* no frame in progress
C29_TenthBitRejected ==
    [][BitStep(BITS_PER_BYTE + 1) =>
          /\ NewFrames = <<Frame(STATUS_BIT_COUNT_ERROR, Val(s.received_bytes))>>
          /\ Cleared(s')]_vars

C29_Witness ==
    /\ tx.fault = [kind |-> "extra", byte |-> 1, bit |-> BITS_PER_BYTE]
    /\ tx.stage = "high" /\ tx.byteIx = 1 /\ tx.nbits = BITS_PER_BYTE + 1
    /\ s.delivered = <<Frame(STATUS_BIT_COUNT_ERROR, <<167, 255>>)>>
    /\ Cleared(s)

IsError(status) == status \in {STATUS_PARITY_ERROR, STATUS_BIT_COUNT_ERROR}

\* C30: a step that delivers a ParityError or BitCountError frame raises
\* nothing in the handler and leaves no frame in progress, and the well-
\* formed packet that follows a packet with such a frame delivers nothing
\* before its end and at its end one OK frame with the bytes sent
C30_ErrorsNonFatal ==
    [][/\ (\E i \in 1..Len(NewFrames) : IsError(NewFrames[i].status)) =>
             ~s'.exc /\ Cleared(s')
       /\ (tx'.fault = NoFault /\ \E e \in tx'.prev : IsError(e)) =>
             s'.delivered = IF tx'.stage = "done"
                            THEN <<Frame(STATUS_OK, tx'.sent)>>
                            ELSE <<>>]_vars

C30_Witness ==
    /\ tx.pkt = 2 /\ tx.stage = "done" /\ tx.fault = NoFault
    /\ tx.prev = {STATUS_PARITY_ERROR}
    /\ tx.sent = <<167, 255>>
    /\ s.delivered = <<Frame(STATUS_OK, <<167, 255>>)>>
    /\ ~s.exc /\ s.callback = "raising"

C30_WitnessBitCount ==
    /\ tx.pkt = 2 /\ tx.stage = "done" /\ tx.fault = NoFault
    /\ tx.prev = {STATUS_BIT_COUNT_ERROR}
    /\ s.delivered = <<Frame(STATUS_OK, <<0, 167>>)>>

---------------------------------------------------------------------------
(* A sensor whose transmission breaks off or whose pulse width is at the   *)
(* limit: "trunc" leaves the line high for good after bit bits of a byte   *)
(* (the sensor loses power, the wire is pulled), "equal" sends bit number  *)
(* bit of a byte with a pulse as long as the calibration pulse.  The       *)
(* packet after such a packet is well-formed.                              *)

GlitchFaults ==
    [kind : {"trunc"}, byte : 0..1, bit : 0..(BITS_PER_BYTE - 1)]
    \cup [kind : {"equal"}, byte : 0..1, bit : 1..BITS_PER_BYTE]

\* the transmission breaks off here
AtTrunc ==
    /\ tx.stage = "high"
    /\ tx.fault.kind = "trunc" /\ tx.fault.byte = tx.byteIx /\ tx.fault.bit = tx.nbits

\* the pulse being sent is the one of the calibration width
AtEqual ==
    /\ tx.stage = "pulse"
    /\ tx.fault.kind = "equal" /\ tx.fault.byte = tx.byteIx /\ tx.fault.bit = tx.nbits + 1

\* falling edge after the line was idle: the start of a two byte packet
\* with a glitch
SendGlitchPacketStart(fault) ==
    /\ tx.stage = "idle" /\ tx.pkt = 0
    /\ fault \in GlitchFaults
    /\ LET t == TickAdd(tx.now, Prof.idle)
       IN  /\ s' = Event(Observe(s), LOW, t)
           /\ tx' = [tx EXCEPT !.stage = "cal", !.pkt = @ + 1, !.nbytes = 2,
                               !.fault = fault, !.byteIx = 0, !.nbits = 0, !.cur = 0,
                               !.ones = 0, !.sent = <<>>, !.now = t, !.t0 = t,
                               !.ev = Some([level |-> LOW, tick |-> t]),
                               !.prev = {}]
    /\ UNCHANGED <<thr, drv>>

\* rising edge that ends a pulse as long as the calibration pulse, sent
\* for bit b
SendRiseEqual(b) ==
    /\ AtEqual
    /\ IF tx.nbits < DATA_BITS THEN CanSend(tx.all, tx.cur, tx.nbits, b)
       ELSE b = tx.ones % 2
    /\ Send(HIGH, Prof.cal,
            [tx EXCEPT !.stage = "high", !.nbits = @ + 1,
                       !.cur = IF tx.nbits < DATA_BITS THEN @ * 2 + b ELSE @,
                       !.ones = IF tx.nbits < DATA_BITS THEN @ + b ELSE @,
                       !.high = Prof.window - Prof.cal])
    /\ UNCHANGED <<thr, drv>>

\* the line stays high where the transmission broke off: the watchdog, if
\* armed, fires
TruncTimeout ==
    /\ AtTrunc
    /\ s.watchdog > 0
    /\ Send(TIMEOUT, 0, [tx EXCEPT !.stage = "done", !.sent = Append(@, tx.cur)])
    /\ UNCHANGED <<thr, drv>>

\* the line stays high where the transmission broke off and no watchdog is
\* armed
TruncSilent ==
    /\ AtTrunc
    /\ s.watchdog = 0
    /\ tx' = [tx EXCEPT !.stage = "done", !.sent = Append(@, tx.cur)]
    /\ UNCHANGED <<s, thr, drv>>

InitGlitch ==
    /\ s = Constructed("TSIC306")
    /\ \E prof \in 1..Len(Profiles) : tx = TxInit(FALSE, prof)
    /\ thr = ThrInit
    /\ drv = DrvInit

NextGlitch ==
    \/ \E cb \in Callbacks : Start(cb)
    \/ SendFirstHigh
    \/ \E fault \in GlitchFaults : SendGlitchPacketStart(fault)
    \/ (tx.pkt > 0 /\ SendPacketStart(2, NoFault))
    \/ SendCalEnd
    \/ (~AtTrunc /\ SendFall)
    \/ \E b \in 0..1 : (~AtEqual /\ SendRise(b))
    \/ \E b \in 0..1 : SendRiseEqual(b)
    \/ SendByteGap
    \/ SendTimeout
    \/ TruncTimeout
    \/ TruncSilent

SpecGlitch == InitGlitch /\ [][NextGlitch]_vars

\* C24: a frame is delivered with status OK only when its last byte has
\* received exactly 9 bits (the bytes before it were closed by a byte gap,
\* which accepts a byte only with 9 bits)
C24_OkBytesHaveNineBits ==
    [][HasStatus(NewFrames, STATUS_OK) => s.bit_count = BITS_PER_BYTE]_vars

\* the high period that a falling edge of the step ends
HighTicks == tickDiff(Val(s.last_high_tick), Val(tx'.ev).tick)

\* the step is a falling edge after a high period of more than 1000 ticks
PacketStartStep ==
    /\ EventStep(LOW)
    /\ ~IsNone(s.last_high_tick)
    /\ TicksGT(HighTicks, 1000)

\* the step is a falling edge after a high period of 1000 ticks
Gap1000Step ==
    /\ EventStep(LOW)
    /\ ~IsNone(s.last_high_tick)
    /\ HighTicks = Tick(0, 1000)

\* C25: a falling edge after a high period of more than 1000 ticks delivers
\* the frame in progress, if there is one, with status OK and nothing else,
\* and leaves a frame of the one byte 0 with bit count 0, parity 0 and no
\* calibration width; a falling edge after exactly 1000 ticks delivers no
\* OK frame and begins no frame: it goes on with the frame in progress as
\* a byte gap does, or is ignored
C25_PacketStart ==
    [][/\ PacketStartStep =>
             /\ NewFrames = IF IsNone(s.received_bytes) THEN <<>>
                            ELSE <<Frame(STATUS_OK, Val(s.received_bytes))>>
             /\ s'.received_bytes = Some(<<0>>)
             /\ s'.bit_count = 0 /\ s'.parity = 0 /\ IsNone(s'.bit_ticks)
       /\ Gap1000Step =>
             /\ ~HasStatus(NewFrames, STATUS_OK)
             /\ s'.received_bytes # Some(<<0>>)
             /\ IsNone(s.received_bytes) => IsNone(s'.received_bytes) /\ NewFrames = <<>>
             /\ (~IsNone(s.received_bytes) /\ s.bit_count = BITS_PER_BYTE) =>
                    /\ s'.received_bytes = Some(Append(Val(s.received_bytes), 0))
                    /\ NewFrames = <<>>]_vars

\* the second packet begins while the first byte of the first, broken off
\* after 3 bits, is still in progress
C25_Witness ==
    /\ tx.pkt = 2 /\ tx.stage = "cal" /\ tx.prof = 1
    /\ s.delivered = <<Frame(STATUS_OK, <<5>>)>>
    /\ s.received_bytes = Some(<<0>>)
    /\ s.bit_count = 0 /\ s.parity = 0 /\ IsNone(s.bit_ticks)

\* a byte gap of exactly 1000 ticks
C25_Witness1000 ==
    /\ tx.pkt = 1 /\ tx.prof = 2 /\ tx.stage = "cal" /\ tx.byteIx = 1
    /\ Profiles[2].gap = 1000
    /\ s.delivered = <<>>
    /\ s.received_bytes = Some(<<167, 0>>)

\* the low pulse that a rising edge of the step ends
LowTicks == tickDiff(Val(s.last_low_tick), Val(tx'.ev).tick)

\* the last byte of a frame in progress
LastByte(st) == Val(st.received_bytes)[Len(Val(st.received_bytes))]

\* C26: a low pulse that is a data bit of a byte is shifted in as 1 if it
\* is shorter than the calibration width of the byte and as 0 otherwise,
\* and counted likewise in the parity; a pulse as long as the calibration
\* width is a 0
C26_BitClassification ==
    [][\A n \in 1..DATA_BITS :
          BitStep(n) =>
              LET bit == IF TicksGreater(Val(s.bit_ticks), LowTicks) THEN 1 ELSE 0
              IN  /\ LastByte(s') = LastByte(s) * 2 + bit
                  /\ s'.parity = s.parity + bit]_vars

---------------------------------------------------------------------------
(* The bytes and the bit state of the decoder *)

\* C31: each of the first 8 classified bits of a byte doubles the byte and
\* adds the bit, counts one bit and adds the bit to the parity; the ninth
\* bit leaves the bytes as they are (in the frame in progress, or in the
\* ParityError frame it delivers) and only counts and adds to the parity;
\* every byte of every delivered frame is in 0..255
C31_EightBitsShifted ==
    [][/\ \A n \in 1..DATA_BITS :
             BitStep(n) =>
                 LET bit == LastByte(s') - 2 * LastByte(s)
                 IN  /\ bit \in 0..1
                     /\ Len(Val(s'.received_bytes)) = Len(Val(s.received_bytes))
                     /\ s'.bit_count = n
                     /\ s'.parity = s.parity + bit
       /\ BitStep(BITS_PER_BYTE) =>
             IF NewFrames = <<>>
             THEN /\ s'.received_bytes = s.received_bytes
                  /\ s'.bit_count = BITS_PER_BYTE
                  /\ s'.parity - s.parity \in 0..1
             ELSE NewFrames = <<Frame(STATUS_PARITY_ERROR, Val(s.received_bytes))>>
       /\ \A i \in 1..Len(s'.delivered) :
             \A j \in 1..Len(s'.delivered[i].bytes) :
                 s'.delivered[i].bytes[j] \in 0..255]_vars

\* the ninth bit of 167 (five ones) is a 1: counted, not shifted
C31_Witness ==
    /\ tx.stage = "high" /\ tx.byteIx = 0 /\ tx.nbits = BITS_PER_BYTE
    /\ tx.fault = NoFault
    /\ s.received_bytes = Some(<<167>>)
    /\ s.bit_count = BITS_PER_BYTE /\ s.parity = 6

C31_WitnessDelivered ==
    /\ tx.stage = "done"
    /\ s.delivered = <<Frame(STATUS_OK, <<255, 167>>)>>

\* C32: between two events the bit count is in 0..9, and when no frame is
\* in progress the bit count is 0, the parity is 0 and no calibration width
\* is stored
C32_BitStateResetTogether ==
    /\ s.bit_count \in 0..9
    /\ IsNone(s.received_bytes) =>
           s.bit_count = 0 /\ s.parity = 0 /\ IsNone(s.bit_ticks)

\* after the tenth pulse of the first byte, while the sensor goes on with
\* the second byte
C32_Witness ==
    /\ tx.fault = [kind |-> "extra", byte |-> 0, bit |-> BITS_PER_BYTE]
    /\ tx.byteIx = 1 /\ tx.stage = "high" /\ tx.nbits = 4
    /\ s.delivered = <<Frame(STATUS_BIT_COUNT_ERROR, <<167>>)>>
    /\ IsNone(s.received_bytes)
    /\ s.bit_count = 0 /\ s.parity = 0 /\ IsNone(s.bit_ticks)

\* nine bits counted in a frame in progress
C32_WitnessNine ==
    /\ ~IsNone(s.received_bytes) /\ s.bit_count = 9 /\ s.parity = 8
    /\ tx.byteIx = 1

---------------------------------------------------------------------------
(* The tick counter wraps between two edges.  The same edges, at the same  *)
(* distances, are delivered to two started channels: to s with ticks that  *)
(* begin shortly before the counter wraps, to drv with ticks that begin at *)
(* 0 and do not wrap.                                                      *)

MaxEdges == 7

\* distances between two edges: both sides of a calibration width of 51,
\* of the byte gap and of the packet gap
EdgeDistances == {50, 51, 52, 150, 151, 1000, 1001}

\* the counter wraps this many ticks after the first tick
WrapsAfter == {1, 1100, 1250}

InitWrap ==
    /\ s = tsic_start(Constructed("TSIC306"), "good")
    /\ drv = tsic_start(Constructed("TSIC306"), "good")
    /\ \E w \in WrapsAfter, level \in {LOW, HIGH} :
           tx = [base |-> Tick(Half - 1, Half - w), wraps |-> w, now |-> 0,
                 level |-> level, edges |-> 0]
    /\ thr = ThrInit

\* the line changes its level d ticks after the edge before
WrapEdge(d) ==
    /\ tx.edges < MaxEdges
    /\ LET t == tx.now + d
           level == IF tx.level = LOW THEN HIGH ELSE LOW
       IN  /\ s' = Event(s, level, TickAdd(tx.base, t))
           /\ drv' = Event(drv, level, Tick(0, t))
           /\ tx' = [tx EXCEPT !.now = t, !.level = level, !.edges = @ + 1]
    /\ UNCHANGED thr

NextWrap == \E d \in EdgeDistances : WrapEdge(d)

SpecWrap == InitWrap /\ [][NextWrap]_vars

NoEdgeTicks(st) == [st EXCEPT !.last_low_tick = NoneV, !.last_high_tick = NoneV]

\* C33: after the same edges the channel whose tick counter wraps holds the
\* same frame in progress, bit count, parity and calibration width and has
\* delivered the same frames as the one whose counter does not wrap, and
\* its edge ticks are those of the other plus the first tick modulo 2^32
C33_WrapSafe ==
    /\ NoEdgeTicks(s) = NoEdgeTicks(drv)
    /\ s.last_low_tick = IF IsNone(drv.last_low_tick) THEN NoneV
                         ELSE Some(TickAdd(tx.base, Val(drv.last_low_tick).lo))
    /\ s.last_high_tick = IF IsNone(drv.last_high_tick) THEN NoneV
                          ELSE Some(TickAdd(tx.base, Val(drv.last_high_tick).lo))

\* the counter wrapped in the packet gap of 1001 ticks: the frame has begun
C33_WitnessGap ==
    /\ tx.wraps = 1100 /\ tx.edges = 2
    /\ s.last_high_tick = Some(Tick(Half - 1, Half - 950))
    /\ s.last_low_tick = Some(Tick(0, 51))
    /\ s.received_bytes = Some(<<0>>)

\* the counter wrapped in a bit pulse that is shorter than the calibration
\* width by one tick: bit 1
C33_Witness ==
    /\ tx.wraps = 1250
    /\ ~IsNone(s.last_low_tick) /\ Val(s.last_low_tick).hi = Half - 1
    /\ ~IsNone(s.last_high_tick) /\ Val(s.last_high_tick).hi = 0
    /\ s.bit_ticks = Some(Tick(0, 51))
    /\ s.received_bytes = Some(<<1>>) /\ s.bit_count = 1

---------------------------------------------------------------------------
(* powermeterapatorec3: the two tariff counters of the repeating power     *)
(* meter.  A counter is a record; update returns the updated counter and   *)
(* the updated other counter.  Readings are whole kWh, times whole         *)
(* seconds, a power is the fraction num / den or the integer 0.            *)

SingleCounter ==
    [prev_reading |-> NoneV, prev_was_edge |-> FALSE, power |-> NoneV,
     power_from_ts |-> NoneV, power_to_ts |-> NoneV]

Zero == [num |-> 0, den |-> 1]

\* (reading_kwh - self._prev_reading) * 3.6e6 / (reading_ts - self.power_to_ts)
PowerOf(reading_kwh, prev_reading, reading_ts, power_to_ts) ==
    [num |-> (reading_kwh - prev_reading) * 3600000, den |-> reading_ts - power_to_ts]

\* update that computes a power at every accepted change after the first
\* reading, whether or not the change before was an edge
update_noedge(self, other_counter, reading_kwh, reading_ts, min_averaging_secs) ==
    IF /\ ~IsNone(reading_kwh)
       /\ self.prev_reading # reading_kwh
       /\ (IsNone(self.power_to_ts)
              \/ reading_ts - Val(self.power_to_ts) >= min_averaging_secs)
    THEN LET computes == ~IsNone(self.prev_reading) /\ ~IsNone(self.power_to_ts)
             s1 == IF computes
                   THEN [self EXCEPT !.power = Some(PowerOf(Val(reading_kwh),
                                                            Val(self.prev_reading),
                                                            reading_ts,
                                                            Val(self.power_to_ts))),
                                     !.power_from_ts = self.power_to_ts]
                   ELSE self
             o1 == IF computes
                   THEN [other_counter EXCEPT !.power = Some(Zero),
                                              !.power_from_ts = s1.power_from_ts,
                                              !.prev_was_edge = TRUE]
                   ELSE other_counter
         IN  [self |-> [s1 EXCEPT !.prev_was_edge = IF ~IsNone(self.prev_reading)
                                                     THEN TRUE ELSE @,
                                  !.prev_reading = reading_kwh,
                                  !.power_to_ts = Some(reading_ts)],
              other |-> o1]
    ELSE [self |-> self, other |-> other_counter]

\* update that takes the time of a reading also when the reading is the
\* one before
update_sametime(self, other_counter, reading_kwh, reading_ts, min_averaging_secs) ==
    IF /\ ~IsNone(reading_kwh)
       /\ (IsNone(self.power_to_ts)
              \/ reading_ts - Val(self.power_to_ts) >= min_averaging_secs)
    THEN LET computes == self.prev_was_edge /\ ~IsNone(self.power_to_ts)
                         /\ self.prev_reading # reading_kwh
             s1 == IF computes
                   THEN [self EXCEPT !.power = Some(PowerOf(Val(reading_kwh),
                                                            Val(self.prev_reading),
                                                            reading_ts,
                                                            Val(self.power_to_ts))),
                                     !.power_from_ts = self.power_to_ts]
                   ELSE self
             o1 == IF computes
                   THEN [other_counter EXCEPT !.power = Some(Zero),
                                              !.power_from_ts = s1.power_from_ts,
                                              !.prev_was_edge = TRUE]
                   ELSE other_counter
         IN  [self |-> [s1 EXCEPT !.prev_was_edge = IF ~IsNone(self.prev_reading)
                                                     THEN TRUE ELSE @,
                                  !.prev_reading = reading_kwh,
                                  !.power_to_ts = Some(reading_ts)],
              other |-> o1]
    ELSE [self |-> self, other |-> other_counter]

\* update that leaves the power of the other counter as it is
update_keepother(self, other_counter, reading_kwh, reading_ts, min_averaging_secs) ==
    IF /\ ~IsNone(reading_kwh)
       /\ self.prev_reading # reading_kwh
       /\ (IsNone(self.power_to_ts)
              \/ reading_ts - Val(self.power_to_ts) >= min_averaging_secs)
    THEN LET computes == self.prev_was_edge /\ ~IsNone(self.power_to_ts)
             s1 == IF computes
                   THEN [self EXCEPT !.power = Some(PowerOf(Val(reading_kwh),
                                                            Val(self.prev_reading),
                                                            reading_ts,
                                                            Val(self.power_to_ts))),
                                     !.power_from_ts = self.power_to_ts]
                   ELSE self
             o1 == IF computes
                   THEN [other_counter EXCEPT !.power_from_ts = s1.power_from_ts,
                                              !.prev_was_edge = TRUE]
                   ELSE other_counter
         IN  [self |-> [s1 EXCEPT !.prev_was_edge = IF ~IsNone(self.prev_reading)
                                                     THEN TRUE ELSE @,
                                  !.prev_reading = reading_kwh,
                                  !.power_to_ts = Some(reading_ts)],
              other |-> o1]
    ELSE [self |-> self, other |-> other_counter]

\* SingleCounter.update
update(self, other_counter, reading_kwh, reading_ts, min_averaging_secs) ==
    IF /\ ~IsNone(reading_kwh)
       /\ self.prev_reading # reading_kwh
       /\ (IsNone(self.power_to_ts)
              \/ reading_ts - Val(self.power_to_ts) >= min_averaging_secs)
    THEN LET computes == self.prev_was_edge /\ ~IsNone(self.power_to_ts)
             s1 == IF computes
                   THEN [self EXCEPT !.power = Some(PowerOf(Val(reading_kwh),
                                                            Val(self.prev_reading),
                                                            reading_ts,
                                                            Val(self.power_to_ts))),
                                     !.power_from_ts = self.power_to_ts]
                   ELSE self
             o1 == IF computes
                   THEN [other_counter EXCEPT !.power = Some(Zero),
                                              !.power_from_ts = s1.power_from_ts,
                                              !.prev_was_edge = TRUE]
                   ELSE other_counter
         IN  [self |-> [s1 EXCEPT !.prev_was_edge = IF ~IsNone(self.prev_reading)
                                                     THEN TRUE ELSE @,
                                  !.prev_reading = reading_kwh,
                                  !.power_to_ts = Some(reading_ts)],
              other |-> o1]
    ELSE [self |-> self, other |-> other_counter]

\* the other tariff
OtherName(c) == IF c = "high" THEN "low" ELSE "high"

MaxAcquires == 4

\* seconds from one acquisition to the next
AcquireDeltas == {10, 30}

\* min_averaging_secs of the constructor, as the tests pass it
MinAveragingSecs == 30

\* what an observer counts for a counter: the readings it has accepted and
\* the powers it has computed
NoObs == [accepted |-> 0, computed |-> 0]

\* PowerMeterApatorEC3Repeating.__init__, before the first reading; the
\* registers of the meter count kWh upwards
InitPower ==
    /\ s = [high |-> SingleCounter, low |-> SingleCounter,
            reading |-> NoneV, reading_ts |-> NoneV, pc |-> "idle",
            min_averaging_secs |-> MinAveragingSecs]
    /\ tx = [now |-> 1000, meter |-> [high |-> 2000, low |-> 1000], acquires |-> 0,
             obs |-> [high |-> NoObs, low |-> NoObs]]
    /\ thr = NoneV
    /\ drv = NoneV

\* _acquire up to the updates: the time is taken and the meter is read;
\* each register has gone up by dh, dl since the reading before, and a
\* line that does not parse gives None
AcquireReading(dt, dh, dl, high_ok, low_ok) ==
    /\ s.pc = "idle"
    /\ tx.acquires < MaxAcquires
    /\ LET meter == [high |-> tx.meter.high + dh, low |-> tx.meter.low + dl]
       IN  /\ tx' = [tx EXCEPT !.now = @ + dt, !.meter = meter, !.acquires = @ + 1]
           /\ s' = [s EXCEPT !.pc = "high",
                             !.reading_ts = Some(tx.now + dt),
                             !.reading = Some([high |-> IF high_ok THEN Some(meter.high)
                                                        ELSE NoneV,
                                               low |-> IF low_ok THEN Some(meter.low)
                                                       ELSE NoneV])]
    /\ UNCHANGED <<thr, drv>>

\* the condition of update: the reading is taken
Accepts(self, reading_kwh, reading_ts, min_averaging_secs) ==
    /\ ~IsNone(reading_kwh)
    /\ self.prev_reading # reading_kwh
    /\ (IsNone(self.power_to_ts)
           \/ reading_ts - Val(self.power_to_ts) >= min_averaging_secs)

\* the inner condition of update: a power is computed from the reading
Computes(self) == self.prev_was_edge /\ ~IsNone(self.power_to_ts)

\* the observer's counts after counter c was given a reading
Observed(c, self, reading_kwh, reading_ts) ==
    LET accepts == Accepts(self, reading_kwh, reading_ts, s.min_averaging_secs)
    IN  [tx.obs EXCEPT ![c].accepted = IF accepts THEN @ + 1 ELSE @,
                       ![c].computed = IF accepts /\ Computes(self) THEN @ + 1 ELSE @]

\* _update_high_power
UpdateHighPower ==
    /\ s.pc = "high"
    /\ LET r == update(s.high, s.low, Val(s.reading).high, Val(s.reading_ts),
                       s.min_averaging_secs)
       IN  /\ s' = [s EXCEPT !.high = r.self, !.low = r.other, !.pc = "low"]
           /\ tx' = [tx EXCEPT !.obs = Observed("high", s.high, Val(s.reading).high,
                                                Val(s.reading_ts))]
    /\ UNCHANGED <<thr, drv>>

\* _update_low_power
UpdateLowPower ==
    /\ s.pc = "low"
    /\ LET r == update(s.low, s.high, Val(s.reading).low, Val(s.reading_ts),
                       s.min_averaging_secs)
       IN  /\ s' = [s EXCEPT !.low = r.self, !.high = r.other, !.pc = "idle"]
           /\ tx' = [tx EXCEPT !.obs = Observed("low", s.low, Val(s.reading).low,
                                                Val(s.reading_ts))]
    /\ UNCHANGED <<thr, drv>>

NextPower ==
    \/ \E dt \in AcquireDeltas, dh \in 0..1, dl \in 0..1, high_ok \in BOOLEAN,
          low_ok \in BOOLEAN : AcquireReading(dt, dh, dl, high_ok, low_ok)
    \/ UpdateHighPower
    \/ UpdateLowPower

SpecPower == InitPower /\ [][NextPower]_vars

Tariffs == {"high", "low"}

\* the step is the update of counter c
UpdateStep(c) == s.pc = c /\ s'.pc # c

\* the step is an update of counter c that takes the reading: a value that
\* is not the one taken before, at least min_averaging_secs after it
AcceptedStep(c) ==
    /\ UpdateStep(c)
    /\ ~IsNone(Val(s.reading)[c])
    /\ s[c].prev_reading # Val(s.reading)[c]
    /\ IsNone(s[c].power_to_ts)
          \/ Val(s.reading_ts) - Val(s[c].power_to_ts) >= MinAveragingSecs

\* (reading - previous reading) * 3.6e6 / (seconds since the previous
\* accepted reading), for the reading of the step
StepPower(c) ==
    [num |-> (Val(Val(s.reading)[c]) - Val(s[c].prev_reading)) * 3600000,
     den |-> Val(s.reading_ts) - Val(s[c].power_to_ts)]

\* C34 as it stands: the power of a counter is None while the counter has
\* accepted one or two readings (the first valid one and the first
\* change), and each accepted reading after these two sets it to
\* (reading - previous reading) * 3.6e6 / (seconds since the previous
\* accepted reading)
C34_PowerFromSecondChange ==
    [][\A c \in Tariffs :
          /\ tx'.obs[c].accepted \in 1..2 => IsNone(s'[c].power)
          /\ (AcceptedStep(c) /\ tx.obs[c].accepted >= 2) =>
                 s'[c].power = Some(StepPower(c))]_vars

\* C34 amended: the power of a counter is None while the counter has
\* accepted one or two readings and the other counter has computed no
\* power, and each accepted reading after these two sets it to (reading -
\* previous reading) * 3.6e6 / (seconds since the previous accepted reading)
C34_PowerFromSecondChangeAmended ==
    [][\A c \in Tariffs :
          /\ (tx'.obs[c].accepted \in 1..2 /\ tx'.obs[OtherName(c)].computed = 0) =>
                 IsNone(s'[c].power)
          /\ (AcceptedStep(c) /\ tx.obs[c].accepted >= 2) =>
                 s'[c].power = Some(StepPower(c))]_vars

\* the third and the fourth accepted reading of the high register, 30 s
\* apart, 1 kWh each: 120000 W
C34_Witness ==
    /\ tx.obs.high.accepted = 4 /\ tx.obs.high.computed = 2
    /\ tx.obs.low.computed = 0
    /\ s.high.power = Some([num |-> 3600000, den |-> 30])
    /\ s.high.prev_reading = Some(2004)

\* two accepted readings and no power yet
C34_WitnessNone ==
    /\ tx.obs.low.accepted = 2 /\ tx.obs.high.computed = 0
    /\ IsNone(s.low.power) /\ s.low.prev_was_edge

\* C35: an update of a counter with the reading None, or with the reading
\* it accepted before, leaves the counter (power, previous reading, both
\* timestamps, edge flag) and the other counter as they were
C35_NoChangeNoEffect ==
    [][\A c \in Tariffs :
          (UpdateStep(c)
             /\ (IsNone(Val(s.reading)[c]) \/ Val(s.reading)[c] = s[c].prev_reading)) =>
              /\ s'[c] = s[c]
              /\ s'[OtherName(c)] = s[OtherName(c)]]_vars

\* a failed reading after the high counter has computed a power
C35_Witness ==
    /\ s.pc = "low"
    /\ IsNone(Val(s.reading).high)
    /\ s.high.power = Some([num |-> 3600000, den |-> 30])
    /\ s.high.power_to_ts = Some(Val(s.reading_ts) - 30)
    /\ s.low.power = Some(Zero)

\* the same reading again, 30 s later
C35_WitnessSame ==
    /\ s.pc = "low"
    /\ Val(s.reading).high = s.high.prev_reading
    /\ s.high.power = Some([num |-> 3600000, den |-> 30])
    /\ s.high.power_to_ts = Some(Val(s.reading_ts) - 30)

\* C36: an update in which a counter computes a power sets the power of
\* the other counter to 0, and at all times either both powers are None or
\* one of them is 0
C36_OtherPowerZero ==
    [][/\ \A c \in Tariffs :
             (UpdateStep(c) /\ tx'.obs[c].computed = tx.obs[c].computed + 1) =>
                 /\ s'[c].power = Some(StepPower(c))
                 /\ s'[OtherName(c)].power = Some(Zero)
       /\ \/ IsNone(s'.high.power) /\ IsNone(s'.low.power)
          \/ s'.high.power = Some(Zero)
          \/ s'.low.power = Some(Zero)]_vars

\* the low counter computes after the high counter has
C36_Witness ==
    /\ tx.obs.high.computed >= 1 /\ tx.obs.low.computed >= 1
    /\ s.pc = "idle"
    /\ s.high.power = Some(Zero)
    /\ ~IsNone(s.low.power) /\ s.low.power # Some(Zero)

---------------------------------------------------------------------------
(* The application starts, stops and restarts the channel at any point of  *)
(* the sensor's transmission.  The sensor sends two packets of two bytes   *)
(* and begins a third; seen, pstarts and firstlow note down what has been  *)
(* delivered to the handler since the last start.                          *)

MaxJoinStarts == 2

JoinLine == Profiles[1]

\* the eight data bits of a byte, most significant first
BitsOf(byte) == [i \in 1..DATA_BITS |-> (byte \div Pow2(DATA_BITS - i)) % 2]

RECURSIVE SumSeq(_)
SumSeq(q) == IF q = <<>> THEN 0 ELSE q[1] + SumSeq(Tail(q))

\* the pulses the sensor sends for a byte: the data bits and the even
\* parity bit; "flip" sends the wrong parity bit, "extra" a tenth pulse
JoinFaults == {"none", "flip", "extra"}

PulsesOf(byte, fault) ==
    LET p == SumSeq(BitsOf(byte)) % 2
    IN  BitsOf(byte) \o <<IF fault = "flip" THEN 1 - p ELSE p>>
                     \o (IF fault = "extra" THEN <<1>> ELSE <<>>)

PulseTicks(b) == IF b = 1 THEN JoinLine.short ELSE JoinLine.long

\* the edges of a byte after its first falling edge: the end of the
\* calibration pulse, then a falling and a rising edge for each pulse
ByteEdges(bits) ==
    [j \in 1..(1 + 2 * Len(bits)) |->
        IF j = 1 THEN [level |-> HIGH, d |-> JoinLine.cal, first |-> FALSE]
        ELSE IF j % 2 = 0
             THEN [level |-> LOW,
                   d |-> JoinLine.window
                         - (IF j = 2 THEN JoinLine.cal ELSE PulseTicks(bits[(j \div 2) - 1])),
                   first |-> FALSE]
             ELSE [level |-> HIGH, d |-> PulseTicks(bits[j \div 2]), first |-> FALSE]]

\* a packet of two bytes; after it the line stays high and the watchdog,
\* if armed, fires
PacketEdges(bytes, fault) ==
    <<[level |-> LOW, d |-> JoinLine.idle, first |-> TRUE]>>
    \o ByteEdges(PulsesOf(bytes[1], IF fault.byte = 1 THEN fault.kind ELSE "none"))
    \o <<[level |-> LOW, d |-> JoinLine.gap, first |-> FALSE]>>
    \o ByteEdges(PulsesOf(bytes[2], IF fault.byte = 2 THEN fault.kind ELSE "none"))
    \o <<[level |-> TIMEOUT, d |-> 0, first |-> FALSE]>>

JoinPackets ==
    {PacketEdges(<<167, 254>>, [kind |-> k, byte |-> 2]) : k \in JoinFaults}
    \cup {PacketEdges(<<167, 254>>, [kind |-> "extra", byte |-> 1])}

JoinScripts ==
    {p1 \o p2 \o <<[level |-> LOW, d |-> JoinLine.idle, first |-> TRUE]>> :
        p1 \in JoinPackets, p2 \in JoinPackets}

InitJoin ==
    /\ s = Constructed("TSIC306")
    /\ \E script \in JoinScripts :
           tx = [script |-> script, k |-> 1, now |-> JoinLine.start, starts |-> 0,
                 seen |-> "none", pstarts |-> 0, any |-> FALSE, firstlow |-> FALSE]
    /\ thr = ThrInit
    /\ drv = DrvInit

\* start(callback) by the application, at any point of the transmission
JoinStart(cb) ==
    /\ tx.starts < MaxJoinStarts
    /\ s' = tsic_start(Observe(s), cb)
    /\ tx' = [tx EXCEPT !.starts = @ + 1, !.seen = "none", !.pstarts = 0,
                        !.any = FALSE, !.firstlow = FALSE]
    /\ UNCHANGED <<thr, drv>>

\* stop() by the application
JoinStop ==
    /\ s.pi_callback
    /\ s' = tsic_stop(s)
    /\ tx' = tx
    /\ UNCHANGED <<thr, drv>>

\* the next edge of the line, or the watchdog if it is armed
JoinEdge ==
    /\ tx.k <= Len(tx.script)
    /\ LET ev == tx.script[tx.k]
           t == TickAdd(tx.now, ev.d)
           handled == s.pi_callback /\ ev.level # TIMEOUT
       IN  /\ s' = IF ev.level = TIMEOUT /\ s.watchdog = 0 THEN s
                   ELSE Event(s, ev.level, t)
           /\ tx' = [tx EXCEPT
                  !.k = @ + 1, !.now = t,
                  !.seen = IF ~handled THEN @
                           ELSE IF ev.level = HIGH
                                THEN (IF @ = "none" THEN "high" ELSE @)
                                ELSE (IF @ = "none" THEN "none" ELSE "armed"),
                  !.pstarts = IF handled /\ ev.level = LOW /\ ev.first /\ tx.seen # "none"
                              THEN @ + 1 ELSE @,
                  !.any = @ \/ handled,
                  !.firstlow = IF handled /\ ~tx.any THEN ev.level = LOW /\ ev.first ELSE @]
    /\ UNCHANGED <<thr, drv>>

NextJoin ==
    \/ \E cb \in Callbacks : JoinStart(cb)
    \/ JoinStop
    \/ JoinEdge

SpecJoin == InitJoin /\ [][NextJoin]_vars

InProgress(st) == IF IsNone(st.received_bytes) THEN 0 ELSE 1

\* C37: since the last start no frame has been delivered and none is in
\* progress before a LOW event has arrived that came after a HIGH event
\* of this start, and the frames delivered or in progress are no more than
\* the packets whose first falling edge came after a HIGH event of this
\* start: the packet whose first falling edge is the first event is not
\* among them
C37_NoFrameBeforeHighLow ==
    /\ tx.seen # "armed" => (s.delivered = <<>> /\ IsNone(s.received_bytes))
    /\ Len(s.delivered) + InProgress(s) <= tx.pstarts

\* the first event after the start was the first falling edge of the first
\* packet; the whole packet has passed, the second has begun, and nothing
\* has been delivered
C37_Witness ==
    /\ tx.firstlow /\ tx.k = 43 /\ tx.pstarts = 1
    /\ s.delivered = <<>>
    /\ s.received_bytes = Some(<<0>>)

\* the second packet is delivered, the first was not
C37_WitnessSecond ==
    /\ tx.firstlow /\ tx.k = Len(tx.script) + 1 /\ tx.pstarts = 2
    /\ s.delivered = <<Frame(STATUS_OK, <<167, 254>>)>>


---------------------------------------------------------------------------
(* The range of the temperature of a Measurement, for the frames of the    *)
(* round trip: every pair of bytes, decoded by TSIC306.                    *)

\* low_temp <= a <= high_temp for the fraction a
InRange(a, tsic_type) ==
    /\ low_temp(tsic_type) * a.den <= a.num
    /\ a.num <= high_temp(tsic_type) * a.den

\* the frame of the packet was delivered with status OK and two bytes
OkFrame == Len(s.delivered) = 1 /\ IsOk2(s.delivered[1])

C38_WitnessMid ==
    /\ s.delivered = <<Frame(STATUS_OK, <<4, 0>>)>>
    /\ measurement(s).degree_celsius = Some([num |-> 1024 * 200 - 50 * 2047, den |-> 2047])


---------------------------------------------------------------------------
(* signalsources: two signal sources a and b and the DeltaSource d of the  *)
(* two.  Values are whole ten-thousandths, times whole tenths of a second. *)
(* A source is a record of the fields of SignalSource, d with the two      *)
(* fields of DeltaSource; now is the clock that time.time() reads, log the *)
(* callback invocations and emitted the arguments of d's last _send, both  *)
(* of the operation under way.                                             *)

SignalValue(value, status, timestamp) ==
    [value |-> value, status |-> status, timestamp |-> timestamp]

SIGNAL_STATUS_OK == "ok"

STATUS_MISSING == "missing"

SEND_MIN_DELTA == 5

\* round(x, 3): to the nearest thousandth, a half to the even one
Round3(x) ==
    LET r == x % 10
        floor == x - r
    IN  IF r < 5 THEN floor
        ELSE IF r > 5 THEN floor + 10
        ELSE IF (floor \div 10) % 2 = 0 THEN floor ELSE floor + 10

\* signal_value == status for a SignalValue and a str: a tuple and a str
\* are never equal
SignalValueEqStr(signal_value, status) == FALSE

\* SignalSource.__init__ and the add_callback calls after it
SignalSource(corr_offset, callbacks) ==
    [callbacks |-> callbacks, last_sent_timestamp |-> NoneV, last_value |-> NoneV,
     running |-> FALSE, corr_offset |-> corr_offset]

\* DeltaSource.__init__
DeltaSource(corr_offset, callbacks) ==
    [callbacks |-> callbacks, last_sent_timestamp |-> NoneV, last_value |-> NoneV,
     running |-> FALSE, corr_offset |-> corr_offset,
     value_a |-> SignalValue(0, STATUS_MISSING, NoneV),
     value_b |-> SignalValue(0, STATUS_MISSING, NoneV)]

signal_start(st, self) == [st EXCEPT ![self].running = TRUE]

signal_stop(st, self) == [st EXCEPT ![self].running = FALSE]

RECURSIVE send_signal_value(_, _, _)

signal_send(st, self, value, status, timestamp) ==
    IF st[self].running
    THEN LET ts == IF IsNone(timestamp) THEN st.now ELSE Val(timestamp)
         IN  send_signal_value(st, self,
                               SignalValue(value + st[self].corr_offset, status, Some(ts)))
    ELSE st

delta_send_value(st) ==
    IF SignalValueEqStr(st.d.value_a, STATUS_MISSING)
       \/ SignalValueEqStr(st.d.value_b, STATUS_MISSING)
    THEN signal_send([st EXCEPT !.emitted = Some([value |-> 0, status |-> STATUS_MISSING])],
                     "d", 0, STATUS_MISSING, NoneV)
    ELSE LET v == Round3(st.d.value_a.value - st.d.value_b.value)
         IN  signal_send([st EXCEPT !.emitted = Some([value |-> v, status |-> SIGNAL_STATUS_OK])],
                         "d", v, SIGNAL_STATUS_OK, NoneV)

a_updated(st, value) == delta_send_value([st EXCEPT !.d.value_a = value])

b_updated(st, value) == delta_send_value([st EXCEPT !.d.value_b = value])

\* callback(self.last_value) inside try / except: "raising" raises and the
\* exception is logged, "observer" takes the value and returns
signal_callback(st, self, callback) ==
    LET value == Val(st[self].last_value)
        s1 == [st EXCEPT !.log = Append(@, [source |-> self, callback |-> callback,
                                            value |-> value])]
    IN  IF callback = "a_updated" THEN a_updated(s1, value)
        ELSE IF callback = "b_updated" THEN b_updated(s1, value)
        ELSE s1

RECURSIVE signal_callbacks(_, _, _)
\* for callback in self.callbacks, from the i-th on
signal_callbacks(st, self, i) ==
    IF i > Len(st[self].callbacks) THEN st
    ELSE signal_callbacks(signal_callback(st, self, st[self].callbacks[i]), self, i + 1)

\* _send_signal_value with < in place of <=
send_signal_value_strict(st, self, signal_value) ==
    IF st[self].running
    THEN LET s1 == [st EXCEPT ![self].last_value = Some(signal_value)]
         IN  IF \/ IsNone(s1[self].last_sent_timestamp)
                \/ Val(s1[self].last_sent_timestamp) + SEND_MIN_DELTA
                       < Val(signal_value.timestamp)
             THEN signal_callbacks(
                      [s1 EXCEPT ![self].last_sent_timestamp = signal_value.timestamp],
                      self, 1)
             ELSE s1
    ELSE st

send_signal_value(st, self, signal_value) ==
    IF st[self].running
    THEN LET s1 == [st EXCEPT ![self].last_value = Some(signal_value)]
         IN  IF \/ IsNone(s1[self].last_sent_timestamp)
                \/ Val(s1[self].last_sent_timestamp) + SEND_MIN_DELTA
                       <= Val(signal_value.timestamp)
             THEN signal_callbacks(
                      [s1 EXCEPT ![self].last_sent_timestamp = signal_value.timestamp],
                      self, 1)
             ELSE s1
    ELSE st

MaxSends == 3

SignalSources == {"a", "b", "d"}

InputSources == {"a", "b"}

\* what an input source reads: a value, or nothing (sent as 0, 'missing')
SignalReadings ==
    {[value |-> 12346, status |-> SIGNAL_STATUS_OK],
     [value |-> 0, status |-> STATUS_MISSING]}

\* tenths of a second between two readings
SignalDeltas == {2, 5}

\* b sends each reading with the timestamp of the begin of its acquisition,
\* SignalAge before the call; a sends with the time of the call
SignalAge == 3

OwnTimestamp(x) == x = "b"

InitSignal ==
    /\ s = [a |-> SignalSource(25000, <<"a_updated", "raising", "observer">>),
            b |-> SignalSource(0, <<"b_updated", "observer">>),
            d |-> DeltaSource(0, <<"observer">>),
            now |-> 10, log |-> <<>>, emitted |-> NoneV]
    /\ tx = [sends |-> 0, ev |-> NoneV,
             fwd |-> [x \in SignalSources |-> NoneV]]
    /\ thr = NoneV /\ drv = NoneV

\* the log and the arguments of d's _send belong to one operation
SignalObserve(st) == [st EXCEPT !.log = <<>>, !.emitted = NoneV]

SignalStart(x) ==
    /\ ~s[x].running
    /\ s' = signal_start(SignalObserve(s), x)
    /\ tx' = [tx EXCEPT !.ev = NoneV]
    /\ UNCHANGED <<thr, drv>>

SignalStop(x) ==
    /\ s[x].running
    /\ s' = signal_stop(SignalObserve(s), x)
    /\ tx' = [tx EXCEPT !.ev = NoneV]
    /\ UNCHANGED <<thr, drv>>

\* the timestamp of the last value of x that the observer of x was given
Forwarded(st, x, before) ==
    LET calls == SelectSeq(st.log, LAMBDA c : c.source = x /\ c.callback = "observer")
    IN  IF calls = <<>> THEN before ELSE calls[Len(calls)].value.timestamp

\* an input source reads and calls _send, dt after the operation before
SignalReading(x, reading, dt) ==
    /\ tx.sends < MaxSends
    /\ LET now == s.now + dt
           own_timestamp == OwnTimestamp(x)
           timestamp == IF own_timestamp THEN Some(now - SignalAge) ELSE NoneV
           s1 == signal_send([SignalObserve(s) EXCEPT !.now = now], x,
                             reading.value, reading.status, timestamp)
       IN  /\ s' = s1
           /\ tx' = [sends |-> tx.sends + 1,
                     ev |-> Some([source |-> x,
                                  value |-> SignalValue(reading.value + s[x].corr_offset,
                                                        reading.status,
                                                        IF own_timestamp THEN timestamp
                                                        ELSE Some(now))]),
                     fwd |-> [y \in SignalSources |-> Forwarded(s1, y, tx.fwd[y])]]
    /\ UNCHANGED <<thr, drv>>

NextSignal ==
    \/ \E x \in SignalSources : SignalStart(x)
    \/ \E x \in SignalSources : SignalStop(x)
    \/ \E x \in InputSources, reading \in SignalReadings, dt \in SignalDeltas :
          SignalReading(x, reading, dt)

SpecSignal == InitSignal /\ [][NextSignal]_vars


\* the callback invocations of source x in the operation under way
SignalCalls(st, x) == SelectSeq(st.log, LAMBDA c : c.source = x)

\* every callback of x once, in the order of the list, with the value
AllCallbacks(x, value) ==
    [i \in 1..Len(s[x].callbacks) |->
        [source |-> x, callback |-> s[x].callbacks[i], value |-> value]]

\* source x was given signal_value in this step
RateLimited(x, signal_value) ==
    IF s[x].running
    THEN /\ s'[x].last_value = Some(signal_value)
         /\ SignalCalls(s', x) =
                IF \/ IsNone(tx.fwd[x])
                   \/ Val(tx.fwd[x]) + 5 <= Val(signal_value.timestamp)
                THEN AllCallbacks(x, signal_value)
                ELSE <<>>
    ELSE /\ s'[x].last_value = s[x].last_value
         /\ SignalCalls(s', x) = <<>>

\* C39: a value given to a running source becomes its last_value, and its
\* callbacks are invoked, each once with this value, exactly if the
\* observer of the source has been given no value yet or the timestamp of
\* the value is at least 5 tenths of a second after that of the value the
\* observer was given last; a value given to a source that is not running
\* changes no last_value and invokes no callback.  The sources are a and b,
\* given their readings, and d, given what _send_value sends
C39_RateLimit ==
    [][/\ \A x \in InputSources :
              (tx'.sends = tx.sends + 1 /\ Val(tx'.ev).source = x) =>
                  RateLimited(x, Val(tx'.ev).value)
       /\ (tx'.sends = tx.sends + 1 /\ ~IsNone(s'.emitted)) =>
              RateLimited("d", SignalValue(Val(s'.emitted).value, Val(s'.emitted).status,
                                           Some(s'.now)))]_vars

\* a running source that has forwarded a value is given one less than 5
\* tenths later: the value is its last_value and no callback is invoked
C39_Witness ==
    /\ ~IsNone(tx.ev) /\ Val(tx.ev).source = "a"
    /\ s.a.running
    /\ s.a.last_value = Some(Val(tx.ev).value)
    /\ ~IsNone(tx.fwd.a) /\ Val(tx.fwd.a) + 2 = s.now
    /\ s.log = <<>>

\* the third value, 7 tenths after the first, is forwarded
C39_WitnessForwarded ==
    /\ tx.sends = 3 /\ Val(tx.ev).source = "a"
    /\ s.now = 19 /\ tx.fwd.a = Some(19)
    /\ s.a.last_sent_timestamp = Some(19)
    /\ Len(SignalCalls(s, "a")) = 3

\* a stopped source that holds a value is given another one
C39_WitnessStopped ==
    /\ ~IsNone(tx.ev) /\ Val(tx.ev).source = "b"
    /\ ~s.b.running
    /\ ~IsNone(s.b.last_value)
    /\ s.b.last_value # Some(Val(tx.ev).value)
    /\ s.log = <<>>

\* C40: what DeltaSource sends is value 0 with status 'missing' whenever
\* one of its two inputs has delivered no value yet or has delivered a
\* value with status 'missing' last, and the difference a - b (rounded to
\* a thousandth) with status 'ok' when both have delivered a value
C40_DeltaMissingOrDifference ==
    ~IsNone(s.emitted) =>
        IF s.d.value_a.status = STATUS_MISSING \/ s.d.value_b.status = STATUS_MISSING
        THEN Val(s.emitted) = [value |-> 0, status |-> STATUS_MISSING]
        ELSE Val(s.emitted) =
                 [value |-> Round3(s.d.value_a.value - s.d.value_b.value),
                  status |-> SIGNAL_STATUS_OK]


====
